---- MODULE Spec2Model ----
(***************************************************************************)
(* Document intake and three-way reconciliation of EmaIngestDataLake.      *)
(*                                                                         *)
(* Conventions of the model                                                *)
(*  - Python None / SQL NULL of a text column is the string NULL.          *)
(*  - A REAL value is held exactly, as an integer number of hundredths     *)
(*    (float("50.00") is 5000, float("10") is 1000); a percentage is an    *)
(*    exact fraction <<numerator, denominator>> in lowest terms.           *)
(*  - A text is a record of its header lines (kv, in file order, the key   *)
(*    already stripped and lower-cased as line 43 of classify_extract.py   *)
(*    does) and its pipe-delimited item lines.                             *)
(*  - A table is the set of its rows, except invoices and reconciliation,  *)
(*    which are sequences in rowid order because reconcile scans them.     *)
(***************************************************************************)
EXTENDS Integers, Sequences, FiniteSets, TLC

VARIABLES
    fs,              \* the folder: path -> content of the file
    OCR_AVAILABLE,   \* pdf_processor.OCR_AVAILABLE, fixed at import
    USE_OPENAI,      \* classify_extract.USE_OPENAI, fixed at import
    progress_callback,   \* the callback the caller hands to ingest_folder and reconcile
    call,            \* a direct call of classify or extract: arguments and result
    documents, purchase_orders, po_lines, invoices, invoice_lines,
    grns, grn_lines, reconciliation,     \* the tables of db.SCHEMA
    ing,             \* the ingest_folder call in progress, its locals
    rec,             \* the reconcile call in progress, its locals
    lastRun,         \* history: path -> what the previous ingest run did with it
    thisRun,         \* history: path -> what the current/latest ingest run did
    lastDoc,         \* history: the dict _persist_structured was last called with
    collided,        \* history: its header key was stored already, with another row
    synced           \* history: no table was written since reconcile last returned

store == <<documents, purchase_orders, po_lines, invoices, invoice_lines, grns, grn_lines>>
settings == <<OCR_AVAILABLE, USE_OPENAI, progress_callback>>
vars == <<fs, OCR_AVAILABLE, USE_OPENAI, progress_callback, call, documents, purchase_orders, po_lines, invoices,
          invoice_lines, grns, grn_lines, reconciliation, ing, rec,
          lastRun, thisRun, lastDoc, collided, synced>>

NULL == "NULL"

-----------------------------------------------------------------------------
(* Generic helpers                                                         *)

Abs(x) == IF x < 0 THEN -x ELSE x

RECURSIVE GCD(_, _)
GCD(a, b) == IF b = 0 THEN a ELSE GCD(b, a % b)

\* the exact value of n / d (d # 0) as a fraction in lowest terms, d > 0
Frac(n, d) ==
    LET g == GCD(Abs(n), Abs(d))
        s == IF d < 0 THEN -1 ELSE 1
    IN  <<(s * n) \div g, (s * d) \div g>>

FracZero == <<0, 1>>

Range(s) == {s[i] : i \in 1..Len(s)}

RECURSIVE SeqFilterRows(_, _)
\* the rows of sequence s whose index is not in drop, order kept
SeqFilterRows(s, drop) ==
    IF s = <<>> THEN <<>>
    ELSE LET n == Len(s)
             front == SeqFilterRows(SubSeq(s, 1, n - 1), drop)
         IN  IF n \in drop THEN front ELSE Append(front, s[n])

\* SQL "=": never true of a NULL
SqlEq(a, b) == a # NULL /\ b # NULL /\ a = b

-----------------------------------------------------------------------------
(* Texts                                                                   *)

\* the classifier's marker phrases (classify_extract.py lines 26, 28, 30)
GRN_MARKERS == {"goods receipt", "grn", "received qty"}
INVOICE_MARKERS == {"invoice number", "invoice"}
PO_MARKERS == {"purchase order", "po number"}

\* the marker phrases that occur, ignoring case, in a header key or value
MarkersIn(s) ==
    CASE s = "Purchase Order"      -> {"purchase order"}
      [] s = "Invoice"             -> {"invoice"}
      [] s = "Goods Receipt (GRN)" -> {"goods receipt", "grn"}
      [] s = "invoice number"      -> {"invoice number", "invoice"}
      [] s = "po number"           -> {"po number"}
      [] s = "grn number"          -> {"grn"}
      [] OTHER                     -> {}

\* the marker phrases t.lower() contains; item lines carry none
MarkersOf(text) ==
    UNION {MarkersIn(text.kv[i][1]) \cup MarkersIn(text.kv[i][2]) : i \in 1..Len(text.kv)}

\* faulty variant: the markers are tried in the order PO, INVOICE, GRN
classify_po_first(text) ==
    LET t == MarkersOf(text)
    IN  IF t \cap PO_MARKERS # {} THEN "PO"
        ELSE IF t \cap INVOICE_MARKERS # {} THEN "INVOICE"
        ELSE IF t \cap GRN_MARKERS # {} THEN "GRN"
        ELSE "UNKNOWN"

\* classify_extract.py 23-33
classify(text) ==
    LET t == MarkersOf(text)
    IN  IF t \cap GRN_MARKERS # {} THEN "GRN"
        ELSE IF t \cap INVOICE_MARKERS # {} THEN "INVOICE"
        ELSE IF t \cap PO_MARKERS # {} THEN "PO"
        ELSE "UNKNOWN"

\* the strings Python's float() accepts, with the value in hundredths
FloatText == {"0", "5", "10", "12", "5.00", "5.10", "5.11", "6.00", "50.00", "60.00",
              "100.00", "102.00", "102.01", "1000.00", "2"}

float(s) ==
    CASE s = "0"     -> 0
      [] s = "5"     -> 500
      [] s = "10"    -> 1000
      [] s = "12"    -> 1200
      [] s = "5.00"  -> 500
      [] s = "5.10"  -> 510
      [] s = "5.11"  -> 511
      [] s = "6.00"  -> 600
      [] s = "50.00" -> 5000
      [] s = "60.00" -> 6000
      [] s = "100.00" -> 10000
      [] s = "102.00" -> 10200
      [] s = "102.01" -> 10201
      [] s = "1000.00" -> 100000
      [] s = "2"     -> 200

\* str.replace(",", "")
StripCommas(s) ==
    CASE s = "1,000.00" -> "1000.00"
      [] OTHER -> s

\* the header map kv of _regex_extract: the lines with a colon and no pipe,
\* split at the first colon, a later line overwriting an earlier one.  A text
\* that went through preprocess_pdf_text is one single line: with an item
\* (a pipe) in it no header is read, otherwise the one header is its first key.
HeaderLines(text) ==
    IF ~text.joined THEN text.kv
    ELSE IF text.items # <<>> \/ text.kv = <<>> THEN <<>>
    ELSE << <<text.kv[1][1], "(rest of the line)">> >>

RECURSIVE KvGet(_, _, _)
KvGet(kv, key, default) ==
    IF kv = <<>> THEN default
    ELSE IF kv[Len(kv)][1] = key THEN kv[Len(kv)][2]
    ELSE KvGet(SubSeq(kv, 1, Len(kv) - 1), key, default)

\* the lines that pass `"sku:" in ln and "unit price" in ln` (PO, INVOICE) or
\* `"sku:" in ln and "qty" in ln` (GRN) and then match the pattern, which
\* ignores case: a line passes the test when its labels are written in lower
\* case; in a joined text the one line passes when some item's labels are.
ItemLines(text, shape) ==
    LET n == Len(text.items)
        pass(i) == IF text.joined
                   THEN /\ \E j \in 1..n : text.items[j].lower
                        /\ \E j \in 1..n : text.items[j].lower /\ text.items[j].shape = shape
                   ELSE text.items[i].lower
    IN  SeqFilterRows(text.items,
                      {i \in 1..n : ~(pass(i) /\ text.items[i].shape = shape)})

RECURSIVE ParseItems(_, _)
\* the items list; float(qty), float(up) of each matched line
ParseItems(lines, withPrice) ==
    IF lines = <<>> THEN <<>>
    ELSE LET n == Len(lines)
             ln == lines[n]
         IN  Append(ParseItems(SubSeq(lines, 1, n - 1), withPrice),
                    [sku |-> ln.sku,
                     description |-> IF withPrice THEN ln.description ELSE NULL,
                     qty |-> float(ln.qty),
                     unit_price |-> IF withPrice THEN float(ln.unit_price) ELSE 0])

\* float() raises ValueError on some matched line
ItemsRaise(lines, withPrice) ==
    \E i \in 1..Len(lines) :
        \/ lines[i].qty \notin FloatText
        \/ withPrice /\ lines[i].unit_price \notin FloatText

NoDoc == [type |-> "UNKNOWN", po_number |-> NULL, invoice_number |-> NULL,
          grn_number |-> NULL, vendor |-> NULL, country |-> NULL,
          currency |-> NULL, date |-> NULL, total_amount |-> 0, items |-> <<>>]

\* _regex_extract: [ok |-> FALSE] when it raises, else the parsed dict; a key
\* the dict does not hold reads NULL (doc.get), total_amount of a GRN is unused
regex_extract(text, doc_type) ==
    LET kv == HeaderLines(text)
        country == KvGet(kv, "country", "US")
        vendor == KvGet(kv, "vendor", "Unknown Vendor")
        currency == KvGet(kv, "currency", "USD")
        total == StripCommas(KvGet(kv, "total", "0"))
        full == ItemLines(text, "full")
        short == ItemLines(text, "short")
    IN  IF doc_type \in {"PO", "INVOICE"}
        THEN IF total \notin FloatText \/ ItemsRaise(full, TRUE)
             THEN [ok |-> FALSE, doc |-> NoDoc]
             ELSE [ok |-> TRUE,
                   doc |-> [type |-> doc_type,
                            po_number |-> KvGet(kv, "po number", NULL),
                            invoice_number |-> IF doc_type = "INVOICE"
                                               THEN KvGet(kv, "invoice number", NULL)
                                               ELSE NULL,
                            grn_number |-> NULL,
                            vendor |-> vendor, country |-> country, currency |-> currency,
                            date |-> KvGet(kv, "date", NULL),
                            total_amount |-> float(total),
                            items |-> ParseItems(full, TRUE)]]
        ELSE IF doc_type = "GRN"
        THEN IF ItemsRaise(short, FALSE)
             THEN [ok |-> FALSE, doc |-> NoDoc]
             ELSE [ok |-> TRUE,
                   doc |-> [type |-> "GRN",
                            po_number |-> KvGet(kv, "po number", NULL),
                            invoice_number |-> NULL,
                            grn_number |-> KvGet(kv, "grn number", NULL),
                            vendor |-> vendor, country |-> country, currency |-> NULL,
                            date |-> KvGet(kv, "date", NULL),
                            total_amount |-> 0,
                            items |-> ParseItems(short, FALSE)]]
        ELSE [ok |-> TRUE, doc |-> NoDoc]

\* Python None / SQL NULL of a REAL column: a number that is no amount
NONE == 0 - 1

\* a JSON object or array where a text is expected: sqlite3 cannot bind it
Unbindable == "{...}"

NoReply == [kind |-> "none", doc |-> NoDoc]

\* what the external service can do with the request of _openai_extract: the
\* call raises; the content is no JSON; the content is a JSON object, here the
\* record the text holds, or that record with a null total, with an object as
\* the vendor, or with an array as the PO number
Replies(text, doc_type) ==
    IF ~USE_OPENAI THEN {NoReply}
    ELSE LET r == regex_extract(text, doc_type)
         IN  {[kind |-> "raise", doc |-> NoDoc], [kind |-> "not_json", doc |-> NoDoc]}
             \cup (IF r.ok /\ doc_type # "UNKNOWN"
                   THEN {[kind |-> "json", doc |-> d] :
                            d \in {r.doc, [r.doc EXCEPT !.total_amount = NONE],
                                   [r.doc EXCEPT !.vendor = Unbindable],
                                   [r.doc EXCEPT !.po_number = Unbindable]}}
                   ELSE {})

\* classify_extract.py 151: the dict returned when json.loads raises
default_record(doc_type) ==
    [NoDoc EXCEPT !.type = doc_type, !.vendor = "Unknown Vendor", !.country = "US",
                  !.currency = "USD", !.total_amount = NONE]

\* _openai_extract: [ok |-> FALSE] when the client or the call raises
openai_extract(text, doc_type, reply) ==
    IF reply.kind = "raise" THEN [ok |-> FALSE, doc |-> NoDoc]
    ELSE IF reply.kind = "not_json" THEN [ok |-> TRUE, doc |-> default_record(doc_type)]
    ELSE [ok |-> TRUE, doc |-> reply.doc]

\* extract: the external strategy when USE_OPENAI, _regex_extract when it
\* raises or when USE_OPENAI is off
extract(text, doc_type, reply) ==
    IF USE_OPENAI
    THEN IF openai_extract(text, doc_type, reply).ok
         THEN openai_extract(text, doc_type, reply)
         ELSE regex_extract(text, doc_type)
    ELSE regex_extract(text, doc_type)

-----------------------------------------------------------------------------
(* Tables: the statements of _persist_structured and _upsert               *)

\* INSERT OR IGNORE: no row is written when clash, the stored rows with the
\* key of the row, is not empty
InsertOrIgnore(table, row, clash) ==
    IF clash # {} THEN table ELSE table \cup {row}

\* INSERT OR REPLACE: the rows with the same key are deleted, the row written
InsertOrReplace(table, row, clash) == (table \ clash) \cup {row}

\* INSERT OR REPLACE on a table kept in rowid order: the rows at the clashing
\* positions are deleted, the new row comes last
InsertOrReplaceSeq(table, row, clash) == Append(SeqFilterRows(table, clash), row)

\* the primary keys of db.SCHEMA; a NULL in a key column conflicts with nothing
SamePO(r, q) == SqlEq(r.po_number, q.po_number) /\ SqlEq(r.vendor, q.vendor)
SamePOLine(r, q) == SqlEq(r.po_number, q.po_number) /\ SqlEq(r.sku, q.sku)
SameInvoice(r, q) == SqlEq(r.invoice_number, q.invoice_number)
SameInvoiceLine(r, q) == SqlEq(r.invoice_number, q.invoice_number) /\ SqlEq(r.sku, q.sku)
SameGRN(r, q) == SqlEq(r.grn_number, q.grn_number)
SameGRNLine(r, q) == SqlEq(r.grn_number, q.grn_number) /\ SqlEq(r.sku, q.sku)

PORow(doc) ==
    [po_number |-> doc.po_number, vendor |-> doc.vendor, country |-> doc.country,
     currency |-> doc.currency, order_date |-> doc.date, total_amount |-> doc.total_amount]

POLineRow(doc, it) ==
    [po_number |-> doc.po_number, sku |-> it.sku, description |-> it.description,
     qty |-> it.qty, unit_price |-> it.unit_price]

InvoiceRow(doc) ==
    [invoice_number |-> doc.invoice_number, po_number |-> doc.po_number,
     vendor |-> doc.vendor, country |-> doc.country, currency |-> doc.currency,
     invoice_date |-> doc.date, total_amount |-> doc.total_amount]

InvoiceLineRow(doc, it) ==
    [invoice_number |-> doc.invoice_number, sku |-> it.sku,
     description |-> it.description, qty |-> it.qty, unit_price |-> it.unit_price]

GRNRow(doc) ==
    [grn_number |-> doc.grn_number, po_number |-> doc.po_number, vendor |-> doc.vendor,
     country |-> doc.country, grn_date |-> doc.date]

GRNLineRow(doc, it) == [grn_number |-> doc.grn_number, sku |-> it.sku, qty |-> it.qty]

\* faulty variant: INSERT OR REPLACE, the later header is stored
persist_purchase_orders_replacing(table, doc) ==
    InsertOrReplace(table, PORow(doc), {r \in table : SamePO(r, PORow(doc))})

\* ingest.py 126-129
persist_purchase_orders(table, doc) ==
    InsertOrIgnore(table, PORow(doc), {r \in table : SamePO(r, PORow(doc))})

RECURSIVE persist_po_lines(_, _, _)
\* ingest.py 130-133: one INSERT OR REPLACE per item, in list order
persist_po_lines(table, doc, items) ==
    IF items = <<>> THEN table
    ELSE persist_po_lines(
             InsertOrReplace(table, POLineRow(doc, Head(items)),
                             {r \in table : SamePOLine(r, POLineRow(doc, Head(items)))}),
                          doc, Tail(items))

\* faulty variant: INSERT OR IGNORE, the stored header is kept
persist_invoices_ignoring(table, doc) ==
    IF \E i \in 1..Len(table) : SameInvoice(table[i], InvoiceRow(doc))
    THEN table ELSE Append(table, InvoiceRow(doc))

\* ingest.py 135-138
persist_invoices(table, doc) ==
    InsertOrReplaceSeq(table, InvoiceRow(doc),
                       {i \in 1..Len(table) : SameInvoice(table[i], InvoiceRow(doc))})

RECURSIVE persist_invoice_lines(_, _, _)
\* ingest.py 139-142
persist_invoice_lines(table, doc, items) ==
    IF items = <<>> THEN table
    ELSE persist_invoice_lines(
             InsertOrReplace(table, InvoiceLineRow(doc, Head(items)),
                             {r \in table :
                                 SameInvoiceLine(r, InvoiceLineRow(doc, Head(items)))}),
             doc, Tail(items))

\* ingest.py 144-147
persist_grns(table, doc) ==
    InsertOrIgnore(table, GRNRow(doc), {r \in table : SameGRN(r, GRNRow(doc))})

RECURSIVE persist_grn_lines(_, _, _)
\* ingest.py 148-151
persist_grn_lines(table, doc, items) ==
    IF items = <<>> THEN table
    ELSE persist_grn_lines(
             InsertOrReplace(table, GRNLineRow(doc, Head(items)),
                             {r \in table : SameGRNLine(r, GRNLineRow(doc, Head(items)))}),
                           doc, Tail(items))

\* faulty variant: a record of no known type is fanned out as an invoice
persist_structured_untyped(doc) ==
    /\ purchase_orders' = IF doc.type = "PO"
                          THEN persist_purchase_orders(purchase_orders, doc)
                          ELSE purchase_orders
    /\ po_lines' = IF doc.type = "PO"
                   THEN persist_po_lines(po_lines, doc, doc.items)
                   ELSE po_lines
    /\ invoices' = IF doc.type \in {"INVOICE", "UNKNOWN"}
                   THEN persist_invoices(invoices, doc)
                   ELSE invoices
    /\ invoice_lines' = IF doc.type = "INVOICE"
                        THEN persist_invoice_lines(invoice_lines, doc, doc.items)
                        ELSE invoice_lines
    /\ grns' = IF doc.type = "GRN" THEN persist_grns(grns, doc) ELSE grns
    /\ grn_lines' = IF doc.type = "GRN"
                    THEN persist_grn_lines(grn_lines, doc, doc.items)
                    ELSE grn_lines

\* _persist_structured(conn, doc): the fan-out into the typed tables
persist_structured(doc) ==
    /\ purchase_orders' = IF doc.type = "PO"
                          THEN persist_purchase_orders(purchase_orders, doc)
                          ELSE purchase_orders
    /\ po_lines' = IF doc.type = "PO"
                   THEN persist_po_lines(po_lines, doc, doc.items)
                   ELSE po_lines
    /\ invoices' = IF doc.type = "INVOICE"
                   THEN persist_invoices(invoices, doc)
                   ELSE invoices
    /\ invoice_lines' = IF doc.type = "INVOICE"
                        THEN persist_invoice_lines(invoice_lines, doc, doc.items)
                        ELSE invoice_lines
    /\ grns' = IF doc.type = "GRN" THEN persist_grns(grns, doc) ELSE grns
    /\ grn_lines' = IF doc.type = "GRN"
                    THEN persist_grn_lines(grn_lines, doc, doc.items)
                    ELSE grn_lines

\* history only: the header key of doc is stored already, with another row
key_collides(doc) ==
    \/ doc.type = "PO" /\ \E r \in purchase_orders :
                            SamePO(r, PORow(doc)) /\ r # PORow(doc)
    \/ doc.type = "INVOICE" /\ \E i \in 1..Len(invoices) :
                            SameInvoice(invoices[i], InvoiceRow(doc))
                            /\ invoices[i] # InvoiceRow(doc)
    \/ doc.type = "GRN" /\ \E r \in grns :
                            SameGRN(r, GRNRow(doc)) /\ r # GRNRow(doc)

\* _upsert(conn, ...): INSERT OR REPLACE INTO reconciliation
upsert(table, row) ==
    InsertOrReplaceSeq(table, row, {i \in 1..Len(table) : SameInvoice(table[i], row)})

-----------------------------------------------------------------------------
(* reconcile: the evaluation of one invoice                                *)

\* the SKUs, ascending: invoice_lines is read through its primary-key index,
\* so the lines of one invoice come in SKU order
SKUS == <<"X", "Y">>

\* a percentage n / d * 100 as an exact fraction, and its comparisons with a
\* tolerance given in hundredths of a percent
Pct(n, d) == Frac(n * 100, d)
FracGT(f, tol) == f[1] * 100 > tol * f[2]
FracAbsGT(f, tol) == Abs(f[1]) * 100 > tol * f[2]

\* faulty variant: the first invoice of a group is not flagged
duplicate_invoices_later_only(invs) ==
    {invs[i].invoice_number : i \in
        {i \in 1..Len(invs) : \E j \in 1..Len(invs) :
            /\ j < i
            /\ invs[j].vendor = invs[i].vendor
            /\ invs[j].total_amount = invs[i].total_amount
            /\ invs[j].invoice_date = invs[i].invoice_date}}

\* reconcile.py 20-29: the invoices of a (vendor, total, date) group of size > 1
duplicate_invoices(invs) ==
    {invs[i].invoice_number : i \in
        {i \in 1..Len(invs) : \E j \in 1..Len(invs) :
            /\ j # i
            /\ invs[j].vendor = invs[i].vendor
            /\ invs[j].total_amount = invs[i].total_amount
            /\ invs[j].invoice_date = invs[i].invoice_date}}

\* reconcile.py 31-33: SELECT invoice_number, po_number, vendor FROM invoices
invoice_list(invs) ==
    [i \in 1..Len(invs) |-> [invoice_number |-> invs[i].invoice_number,
                             po_number |-> invs[i].po_number,
                             vendor |-> invs[i].vendor]]

RECURSIVE SumQty(_)
SumQty(rows) ==
    IF rows = {} THEN 0
    ELSE LET r == CHOOSE r \in rows : TRUE IN r.qty + SumQty(rows \ {r})

\* reconcile.py 74-75, 83: grn_qty.get(sku, 0); the join is on po_number only
received_qty(po_no, sku) ==
    SumQty({gl \in grn_lines : /\ gl.sku = sku
                               /\ \E g \in grns : /\ SqlEq(g.grn_number, gl.grn_number)
                                                  /\ SqlEq(g.po_number, po_no)})

\* reconcile.py 77-78, 82: the PO's unit price, the invoice's own when the PO
\* has no line for the SKU
po_price(po_no, sku, iprice) ==
    LET rows == {pl \in po_lines : SqlEq(pl.po_number, po_no) /\ pl.sku = sku}
    IN  IF rows = {} THEN iprice ELSE (CHOOSE pl \in rows : TRUE).unit_price

\* faulty variant: the vendor is left out of the lookup
matching_po_any_vendor(po_no, vendor) ==
    {po \in purchase_orders : SqlEq(po.po_number, po_no)}

\* reconcile.py 55-56: SELECT ... FROM purchase_orders WHERE po_number=? AND vendor=?
matching_po(po_no, vendor) ==
    {po \in purchase_orders : SqlEq(po.po_number, po_no) /\ SqlEq(po.vendor, vendor)}

\* reconcile.py 64-65: SELECT COUNT(1) FROM grns WHERE po_number=? AND vendor=? is > 0
has_grn(po_no, vendor) ==
    \E g \in grns : SqlEq(g.po_number, po_no) /\ SqlEq(g.vendor, vendor)

\* faulty variant: a quantity beyond the tolerance is recorded in qty_var
\* without the status being set
compare_line_qty_unflagged(st, ln, po_no, qty_tol, price_tol) ==
    LET pprice == po_price(po_no, ln.sku, ln.unit_price)
        rqty == received_qty(po_no, ln.sku)
        st1 == IF Abs(ln.qty - rqty) > qty_tol
               THEN [st EXCEPT !.qty_var = ln.qty - rqty]
               ELSE st
    IN  IF pprice # 0
        THEN LET pv == Pct(ln.unit_price - pprice, pprice)
             IN  IF FracAbsGT(pv, price_tol) /\ st1.status = "MATCH"
                 THEN [st1 EXCEPT !.status = "PRICE_VAR", !.price_var_pct = pv]
                 ELSE st1
        ELSE st1

\* faulty variant: the quantity check is gated on MATCH like the price check
compare_line_gated(st, ln, po_no, qty_tol, price_tol) ==
    LET pprice == po_price(po_no, ln.sku, ln.unit_price)
        rqty == received_qty(po_no, ln.sku)
        st1 == IF Abs(ln.qty - rqty) > qty_tol /\ st.status = "MATCH"
               THEN [st EXCEPT !.status = "QTY_VAR", !.qty_var = ln.qty - rqty]
               ELSE st
    IN  IF pprice # 0
        THEN LET pv == Pct(ln.unit_price - pprice, pprice)
             IN  IF FracAbsGT(pv, price_tol) /\ st1.status = "MATCH"
                 THEN [st1 EXCEPT !.status = "PRICE_VAR", !.price_var_pct = pv]
                 ELSE st1
        ELSE st1

\* faulty variant: the price check is not gated on MATCH
compare_line_price_overrides(st, ln, po_no, qty_tol, price_tol) ==
    LET pprice == po_price(po_no, ln.sku, ln.unit_price)
        rqty == received_qty(po_no, ln.sku)
        st1 == IF Abs(ln.qty - rqty) > qty_tol
               THEN [st EXCEPT !.status = "QTY_VAR", !.qty_var = ln.qty - rqty]
               ELSE st
    IN  IF pprice # 0
        THEN LET pv == Pct(ln.unit_price - pprice, pprice)
             IN  IF FracAbsGT(pv, price_tol)
                 THEN [st1 EXCEPT !.status = "PRICE_VAR", !.price_var_pct = pv]
                 ELSE st1
        ELSE st1

\* faulty variant: the quantity variance of the first line off is kept
compare_line_first_qty(st, ln, po_no, qty_tol, price_tol) ==
    LET pprice == po_price(po_no, ln.sku, ln.unit_price)
        rqty == received_qty(po_no, ln.sku)
        st1 == IF Abs(ln.qty - rqty) > qty_tol
               THEN [st EXCEPT !.status = "QTY_VAR",
                               !.qty_var = IF st.status = "QTY_VAR" THEN @
                                           ELSE ln.qty - rqty]
               ELSE st
    IN  IF pprice # 0
        THEN LET pv == Pct(ln.unit_price - pprice, pprice)
             IN  IF FracAbsGT(pv, price_tol) /\ st1.status = "MATCH"
                 THEN [st1 EXCEPT !.status = "PRICE_VAR", !.price_var_pct = pv]
                 ELSE st1
        ELSE st1

\* faulty variant: the comparison of the price with the tolerance is >=
compare_line_price_inclusive(st, ln, po_no, qty_tol, price_tol) ==
    LET pprice == po_price(po_no, ln.sku, ln.unit_price)
        rqty == received_qty(po_no, ln.sku)
        st1 == IF Abs(ln.qty - rqty) > qty_tol
               THEN [st EXCEPT !.status = "QTY_VAR", !.qty_var = ln.qty - rqty]
               ELSE st
    IN  IF pprice # 0
        THEN LET pv == Pct(ln.unit_price - pprice, pprice)
             IN  IF Abs(pv[1]) * 100 >= price_tol * pv[2] /\ st1.status = "MATCH"
                 THEN [st1 EXCEPT !.status = "PRICE_VAR", !.price_var_pct = pv]
                 ELSE st1
        ELSE st1

\* reconcile.py 81-92: one turn of the loop over the invoice's lines
compare_line(st, ln, po_no, qty_tol, price_tol) ==
    LET pprice == po_price(po_no, ln.sku, ln.unit_price)
        rqty == received_qty(po_no, ln.sku)
        st1 == IF Abs(ln.qty - rqty) > qty_tol
               THEN [st EXCEPT !.status = "QTY_VAR", !.qty_var = ln.qty - rqty]
               ELSE st
    IN  IF pprice # 0
        THEN LET pv == Pct(ln.unit_price - pprice, pprice)
             IN  IF FracAbsGT(pv, price_tol) /\ st1.status = "MATCH"
                 THEN [st1 EXCEPT !.status = "PRICE_VAR", !.price_var_pct = pv]
                 ELSE st1
        ELSE st1

RECURSIVE compare_lines_in(_, _, _, _, _, _, _)
\* reconcile.py 81-92: the loop over inv_lines.items(), the lines taken in the
\* given order of their SKUs, from position k of it
compare_lines_in(st, inv_no, po_no, qty_tol, price_tol, order, k) ==
    IF k > Len(order) THEN st
    ELSE LET rows == {il \in invoice_lines :
                         SqlEq(il.invoice_number, inv_no) /\ il.sku = order[k]}
             next == IF rows = {} THEN st
                     ELSE compare_line(st, CHOOSE il \in rows : TRUE, po_no,
                                       qty_tol, price_tol)
         IN  compare_lines_in(next, inv_no, po_no, qty_tol, price_tol, order, k + 1)

\* the loop over inv_lines.items() in the order the SELECT of line 70 yields:
\* SKU order, from position k of SKUS
compare_lines(st, inv_no, po_no, qty_tol, price_tol, k) ==
    compare_lines_in(st, inv_no, po_no, qty_tol, price_tol, SKUS, k)

\* faulty variant: the comparison with the tolerance is >=
overbill_inclusive(inv_total, po_total, price_tol) ==
    po_total \notin {0, NONE} /\ LET f == Pct(inv_total - po_total, po_total)
                              IN  f[1] * 100 >= price_tol * f[2]

\* reconcile.py 94-96: po_total and (inv_total - po_total)/po_total*100 > tol;
\* a PO total of None is as false as one of 0
overbill(inv_total, po_total, price_tol) ==
    po_total \notin {0, NONE} /\ FracGT(Pct(inv_total - po_total, po_total), price_tol)

\* faulty variant: the missing receipt is flagged whatever the status is
check_grn_ungated(st, po_no, vendor) ==
    IF ~has_grn(po_no, vendor)
    THEN [st EXCEPT !.status = "MISSING_GRN", !.comments = "No goods receipt for PO"]
    ELSE st

\* reconcile.py 66-67: a missing receipt is flagged while the status is MATCH
check_grn(st, po_no, vendor) ==
    IF ~has_grn(po_no, vendor) /\ st.status = "MATCH"
    THEN [st EXCEPT !.status = "MISSING_GRN", !.comments = "No goods receipt for PO"]
    ELSE st

\* faulty variant: the overbilling is flagged whatever the status is
check_overbill_ungated(st, inv_total, po_total, price_tol) ==
    IF overbill(inv_total, po_total, price_tol)
    THEN [st EXCEPT !.status = "OVERBILL", !.comments = "Invoice total exceeds PO total"]
    ELSE st

\* reconcile.py 95-96: overbilling is flagged while the status is MATCH
check_overbill(st, inv_total, po_total, price_tol) ==
    IF overbill(inv_total, po_total, price_tol) /\ st.status = "MATCH"
    THEN [st EXCEPT !.status = "OVERBILL", !.comments = "Invoice total exceeds PO total"]
    ELSE st

\* reconcile.py 42-98: the body of the loop for one invoice, the row it upserts,
\* the lines of the invoice taken in the given order of their SKUs
reconcile_invoice_in(inv, dups, qty_tol, price_tol, order) ==
    LET st0 == [invoice_number |-> inv.invoice_number, po_number |-> inv.po_number,
                vendor |-> inv.vendor, status |-> "MATCH", qty_var |-> 0,
                price_var_pct |-> FracZero, comments |-> ""]
        st1 == IF inv.invoice_number \in dups
               THEN [st0 EXCEPT !.status = "DUP_INVOICE", !.comments = "Duplicate invoice"]
               ELSE st0
        inv_rows == {i \in 1..Len(invoices) :
                        SqlEq(invoices[i].invoice_number, inv.invoice_number)}
        po_rows == matching_po(inv.po_number, inv.vendor)
    IN  IF inv_rows = {}
        THEN [st1 EXCEPT !.status = "MISSING_INVOICE_DATA",
                         !.comments = "Invoice data missing from invoices table"]
        ELSE IF po_rows = {}
        THEN [st1 EXCEPT !.status = "NO_PO", !.comments = "No matching PO"]
        ELSE
        LET inv_total == invoices[CHOOSE i \in inv_rows : TRUE].total_amount
            po_total == (CHOOSE po \in po_rows : TRUE).total_amount
            st2 == check_grn(st1, inv.po_number, inv.vendor)
            st3 == compare_lines_in(st2, inv.invoice_number, inv.po_number,
                                    qty_tol, price_tol, order, 1)
        IN  check_overbill(st3, inv_total, po_total, price_tol)

\* reconcile.py 42-98 with the lines in the order the SELECT of line 70 yields
reconcile_invoice(inv, dups, qty_tol, price_tol) ==
    reconcile_invoice_in(inv, dups, qty_tol, price_tol, SKUS)

\* reconcile.py 84, 89, 95: the loop body raises TypeError when the arithmetic
\* meets a None: a quantity or, against a PO price, a unit price of an invoice
\* line, or the invoice total against a PO total that is neither None nor 0
reconcile_raises(inv) ==
    LET inv_rows == {i \in 1..Len(invoices) :
                        SqlEq(invoices[i].invoice_number, inv.invoice_number)}
        po_rows == matching_po(inv.po_number, inv.vendor)
    IN  /\ inv_rows # {}
        /\ po_rows # {}
        /\ \/ \E il \in invoice_lines :
                /\ SqlEq(il.invoice_number, inv.invoice_number)
                /\ \/ il.qty = NONE
                   \/ /\ po_price(inv.po_number, il.sku, il.unit_price) \notin {0, NONE}
                      /\ il.unit_price = NONE
           \/ /\ (CHOOSE po \in po_rows : TRUE).total_amount \notin {0, NONE}
              /\ invoices[CHOOSE i \in inv_rows : TRUE].total_amount = NONE

-----------------------------------------------------------------------------
(* The folder and the Content Extractor                                    *)

\* the file names of the folder, in the order sorted(folder.glob("*")) gives
PATHS == <<"a.txt", "b.txt", "c.txt", "d.PNG", "e.csv", "f.pdf">>

\* Path.suffix
suffix(path) ==
    CASE path \in {"a.txt", "b.txt", "c.txt"} -> ".txt"
      [] path = "d.PNG" -> ".PNG"
      [] path = "e.csv" -> ".csv"
      [] path = "f.pdf" -> ".pdf"

\* str.lower of a suffix
str_lower(s) == IF s = ".PNG" THEN ".png" ELSE s

\* get_file_type: the suffix, lower-cased
get_file_type(path) == str_lower(suffix(path))

IMAGE_TYPES == {".jpg", ".jpeg", ".png", ".tiff", ".tif", ".bmp"}

\* faulty variant: no file type is turned away
is_supported_file_type_any(path) == TRUE

\* pdf_processor.py 466-478
is_supported_file_type(path) ==
    get_file_type(path) \in {".txt", ".pdf"} \cup IMAGE_TYPES

\* file_hash: SHA-256 of the bytes; the digest is represented by the content
\* it digests (equal contents, equal digests; no collisions)
file_hash(content) == content

EmptyText == [kv |-> <<>>, items |-> <<>>, joined |-> FALSE]

\* preprocess_pdf_text: every whitespace run, line breaks included, becomes
\* one space, so the text is a single line afterwards
preprocess_pdf_text(text) ==
    IF text.kv = <<>> /\ text.items = <<>> THEN EmptyText
    ELSE [text EXCEPT !.joined = TRUE]

\* what a PDF holds: its text, and whether the text is embedded in the pages
\* (more than 50 characters of it) or the pages are scans without any
TextOf(content) == [kv |-> content.kv, items |-> content.items, joined |-> content.joined]

\* extract_text_from_pdf (pdf_processor.py 206-250): the embedded text is
\* returned when it is substantial.  Otherwise, with OCR, the OCR path is
\* taken: the conversion may fail or pass its 30 s deadline (raise), no page
\* may survive (empty text), or the pages are recognised; without OCR and
\* without any embedded text the function raises.
extract_text_from_pdf(content, ocr) ==
    IF content.embedded
    THEN {[ok |-> TRUE, text |-> TextOf(content), why |-> "embedded text"]}
    ELSE IF ocr
    THEN {[ok |-> FALSE, text |-> EmptyText, why |-> "deadline of PDF conversion"],
          [ok |-> TRUE, text |-> EmptyText, why |-> "no page survived the OCR"],
          [ok |-> TRUE, text |-> TextOf(content), why |-> "OCR of the pages"]}
    ELSE {[ok |-> FALSE, text |-> EmptyText, why |-> "no text and no OCR"]}

\* read_document_content: what the call can do with the file, given what the
\* file holds: return a text, or raise; why tells what happened on the way.
\* A text file is read verbatim.  The text of a PDF is preprocessed.  An
\* image raises without OCR; with OCR the
\* 20 s deadline of the image OCR may expire (raise), the 10 s deadline of
\* the text recognition inside may expire (empty text), or the text is
\* recognised.  Any other type raises.
read_document_content(path, content, ocr) ==
    LET t == get_file_type(path)
    IN  IF t = ".txt" THEN {[ok |-> TRUE, text |-> content, why |-> "read"]}
        ELSE IF t = ".pdf"
        THEN {[r EXCEPT !.text = preprocess_pdf_text(r.text)] :
                 r \in extract_text_from_pdf(content, ocr)}
        ELSE IF t \in IMAGE_TYPES
        THEN IF ~ocr THEN {[ok |-> FALSE, text |-> EmptyText, why |-> "no OCR"]}
             ELSE {[ok |-> FALSE, text |-> EmptyText, why |-> "deadline of image OCR"],
                   [ok |-> TRUE, text |-> EmptyText, why |-> "deadline of text recognition"],
                   [ok |-> TRUE, text |-> preprocess_pdf_text(content), why |-> "read"]}
        ELSE {[ok |-> FALSE, text |-> EmptyText, why |-> "unsupported"]}

\* get_document_processing_info(path)['processing_method']
processing_method(path, ocr) ==
    LET t == get_file_type(path)
    IN  IF t = ".txt" THEN "text_file"
        ELSE IF t = ".pdf" THEN (IF ocr THEN "pdf_with_ocr_fallback" ELSE "pdf_text_only")
        ELSE IF t \in IMAGE_TYPES THEN "ocr_required"
        ELSE "unknown"

\* ingest.py 73-84
ocr_confidence(method) ==
    IF method = "text_file" THEN 100
    ELSE IF method = "pdf_text_only" THEN 95
    ELSE IF method \in {"pdf_with_ocr_fallback", "ocr_required"} THEN 75
    ELSE 90

-----------------------------------------------------------------------------
(* The documents the folder can hold                                       *)

Header(type, more) == << <<"document type", type>> >> \o more

Item(shape, lower, sku, qty, price) ==
    [shape |-> shape, lower |-> lower, sku |-> sku, description |-> "Widget",
     qty |-> qty, unit_price |-> price]

\* the three documents of the end-to-end scenario; lower tells whether the
\* item line writes its labels in lower case ("sku:", "qty:", "unit price:")
PO1000(lower) ==
    [kv |-> Header("Purchase Order",
                   << <<"po number", "PO-1000">>, <<"vendor", "V">>,
                      <<"date", "2025-07-01">>, <<"total", "50.00">> >>),
     items |-> << Item("full", lower, "X", "10", "5.00") >>,
     joined |-> FALSE]

GRN1000(lower) ==
    [kv |-> Header("Goods Receipt (GRN)",
                   << <<"grn number", "GRN-1000">>, <<"po number", "PO-1000">>,
                      <<"vendor", "V">>, <<"date", "2025-07-02">> >>),
     items |-> << Item("short", lower, "X", "10", "") >>,
     joined |-> FALSE]

INV1000(lower) ==
    [kv |-> Header("Invoice",
                   << <<"invoice number", "INV-1000-1">>, <<"po number", "PO-1000">>,
                      <<"vendor", "V">>, <<"date", "2025-07-03">>,
                      <<"total", "50.00">> >>),
     items |-> << Item("full", lower, "X", "10", "5.00") >>,
     joined |-> FALSE]

\* an invoice whose total is no number: float() raises ValueError
BadInvoice ==
    [kv |-> Header("Invoice", << <<"invoice number", "INV-9">>, <<"total", "N/A">> >>),
     items |-> <<>>, joined |-> FALSE]

\* a text without any marker
Memo == [kv |-> << <<"subject", "hello">> >>, items |-> <<>>, joined |-> FALSE]

\* a scanned invoice
ScanInvoice ==
    [kv |-> Header("Invoice", << <<"invoice number", "INV-2000-1">>,
                                 <<"po number", "PO-1000">>, <<"vendor", "V">> >>),
     items |-> << Item("full", TRUE, "X", "12", "5.00") >>,
     joined |-> FALSE]

TextContents == {PO1000(TRUE), INV1000(TRUE), BadInvoice, Memo}

\* an invoice as a PDF: with its text embedded, or as scanned pages
PdfInvoice(embedded) ==
    [kv |-> Header("Invoice", << <<"invoice number", "INV-3000-1">>,
                                 <<"po number", "PO-1000">>, <<"vendor", "V">> >>),
     items |-> << Item("full", TRUE, "X", "10", "5.00") >>,
     joined |-> FALSE, embedded |-> embedded]

PdfContents == {PdfInvoice(TRUE), PdfInvoice(FALSE)}

ContentsFor(path) ==
    CASE get_file_type(path) = ".txt" -> TextContents
      [] get_file_type(path) = ".png" -> {ScanInvoice}
      [] get_file_type(path) = ".pdf" -> PdfContents
      [] OTHER -> {Memo}

\* an editor changes a text file: a new last line overrides the total
Edit(content) ==
    IF content.kv # <<>> /\ content.kv[Len(content.kv)] = <<"total", "60.00">>
    THEN content
    ELSE [content EXCEPT !.kv = Append(content.kv, <<"total", "60.00">>)]

-----------------------------------------------------------------------------
(* ingest_folder                                                           *)

NoResult == [res |-> "none", hash |-> EmptyText, step |-> "", why |-> ""]

\* the locals of a run; notified holds the counts the run has handed to
\* progress_callback so far, in the order of the invocations
IdleIngest == [pc |-> "idle", all_files |-> <<>>, idx |-> 1,
               ingested |-> 0, skipped |-> 0, errors |-> 0, notified |-> <<>>]

IdleReconcile == [pc |-> "idle", invoices |-> <<>>, idx |-> 1, dups |-> {},
                  qty_tol |-> 0, price_tol |-> 0, notified |-> <<>>]

\* if progress_callback: progress_callback(message, n, total, name)
notify(run, n) ==
    IF progress_callback = "None" THEN run
    ELSE [run EXCEPT !.notified = Append(@, n)]

\* ingest.py 25: the non-directory entries of the folder, sorted
all_files(folder) ==
    SeqFilterRows(PATHS, {i \in 1..Len(PATHS) : PATHS[i] \notin DOMAIN folder})

\* ingest.py 50: SELECT id FROM documents WHERE path=? OR hash=?
\* faulty variant: the lookup compares the path only
is_duplicate_path_only(docs, path, h) == \E d \in docs : d.path = path

is_duplicate(docs, path, h) == \E d \in docs : d.path = path \/ d.hash = h

\* ingest.py 64-65, 73-93: the row INSERTed INTO documents; id is the rowid
\* SQLite assigns, one more than the largest (no row is ever deleted)
document_row(id, path, h, doc_type, parsed, ocr) ==
    [id |-> id, path |-> path, hash |-> h, doc_type |-> doc_type,
     country |-> IF parsed.type = "UNKNOWN" THEN "US" ELSE parsed.country,
     vendor |-> IF parsed.type = "UNKNOWN" THEN "Unknown Vendor" ELSE parsed.vendor,
     file_type |-> get_file_type(path),
     processing_method |-> processing_method(path, ocr),
     ocr_confidence |-> ocr_confidence(processing_method(path, ocr)),
     requires_ocr |-> get_file_type(path) \in IMAGE_TYPES]

\* ingest.py 87-93: sqlite3 raises on a parameter it cannot bind
insert_raises(parsed) == parsed.vendor = Unbindable

\* ingest.py 126-129, 135-138, 144-147: the header INSERT of the fan-out raises
\* on a parameter it cannot bind, before any typed row is written
persist_raises(doc) ==
    doc.type \in {"PO", "INVOICE", "GRN"}
    /\ Unbindable \in {doc.po_number, doc.vendor}

\* whether one invocation of progress_callback raises: never without a
\* callback or with one that only reports, maybe with one that can fail
Raises == IF progress_callback = "fails" THEN BOOLEAN ELSE {FALSE}

\* the loop moves on to the next file with one counter incremented
\* (ingest.py 41-42, 55-56, 97, 111-112); run holds the locals so far
count(run, path, h, field, res, step, why) ==
    /\ ing' = [run EXCEPT !.idx = @ + 1, ![field] = @ + 1]
    /\ thisRun' = [thisRun EXCEPT ![path] =
                      [res |-> res, hash |-> h, step |-> step, why |-> why]]

\* an exception leaves ingest_folder: the call is over and returns nothing
propagate(run, path, h, step, why) ==
    /\ ing' = [run EXCEPT !.pc = "raised"]
    /\ thisRun' = [thisRun EXCEPT ![path] =
                      [res |-> "raised", hash |-> h, step |-> step, why |-> why]]

\* faulty variant: the handler reports the error and raises it again
except_handler_reraising(run, path, h, step, why, cb_raises) ==
    propagate(run, path, h, step, why)

\* faulty variant: the handler counts the error without telling the callback
except_handler_silent(run, path, h, step, why, cb_raises) ==
    count(run, path, h, "errors", "error", step, why)

\* ingest.py 106-112: the handler of the try block: the message is printed and
\* handed to the callback, then errors += 1 and the loop continues
except_handler(run, path, h, step, why, cb_raises) ==
    IF cb_raises
    THEN propagate(notify(run, run.idx), path, h, step, why)
    ELSE count(notify(run, run.idx), path, h, "errors", "error", step, why)

\* ingest.py 22-29: the call starts; no other call of the pipeline is running
IngestStart ==
    /\ ing.pc # "running" /\ rec.pc # "running"
    /\ \E cb \in Raises :
        ing' = notify([IdleIngest EXCEPT !.pc = IF cb THEN "raised" ELSE "running",
                                         !.all_files = all_files(fs)], 0)
    /\ lastRun' = thisRun
    /\ thisRun' = [p \in Range(PATHS) |-> NoResult]
    /\ UNCHANGED <<fs, settings, call, store, reconciliation, rec, lastDoc, collided, synced>>

\* ingest.py 31-112: one turn of the loop over all_files.  cb1 is the callback
\* of line 33, cb2 the one with the message of the file (40, 54, 104), cb3 the
\* one of the handler (110).
IngestFile ==
    /\ ing.pc = "running" /\ ing.idx <= Len(ing.all_files)
    /\ LET path == ing.all_files[ing.idx]
           h == file_hash(fs[path])
           started == notify(ing, ing.idx - 1)
           told == notify(started, ing.idx)
       IN  \E cb1 \in Raises, cb2 \in Raises, cb3 \in Raises :
           IF cb1
           THEN /\ propagate(started, path, h, "callback", "callback")
                /\ UNCHANGED <<store, lastDoc, collided, synced>>
           ELSE IF ~is_supported_file_type(path)
           THEN /\ IF cb2 THEN propagate(told, path, h, "unsupported", "callback")
                          ELSE count(told, path, h, "skipped", "skipped",
                                     "unsupported", "")
                /\ UNCHANGED <<store, lastDoc, collided, synced>>
           ELSE \E r \in read_document_content(path, fs[path], OCR_AVAILABLE) :
                IF ~r.ok
                THEN /\ except_handler(started, path, h, "content extraction", r.why, cb3)
                     /\ UNCHANGED <<store, lastDoc, collided, synced>>
                ELSE IF is_duplicate(documents, path, h)
                THEN /\ IF cb2 THEN except_handler(told, path, h, "duplicate lookup",
                                                   "callback", cb3)
                               ELSE count(told, path, h, "skipped", "skipped",
                                          "duplicate lookup", r.why)
                     /\ UNCHANGED <<store, lastDoc, collided, synced>>
                ELSE \E reply \in Replies(r.text, classify(r.text)) :
                     LET doc_type == classify(r.text)
                         parsed == extract(r.text, doc_type, reply)
                     IN  IF ~parsed.ok
                         THEN /\ except_handler(started, path, h, "field extraction",
                                                r.why, cb3)
                              /\ UNCHANGED <<store, lastDoc, collided, synced>>
                         ELSE IF insert_raises(parsed.doc)
                         THEN /\ except_handler(started, path, h, "Document insert",
                                                r.why, cb3)
                              /\ UNCHANGED <<store, lastDoc, collided, synced>>
                         ELSE /\ documents' = documents \cup
                                     {document_row(Cardinality(documents) + 1, path, h,
                                                   doc_type, parsed.doc,
                                                   OCR_AVAILABLE)}
                              /\ synced' = FALSE
                              /\ IF persist_raises(parsed.doc)
                                 THEN /\ except_handler(started, path, h, "fan-out",
                                                        r.why, cb3)
                                      /\ UNCHANGED <<purchase_orders, po_lines, invoices,
                                                     invoice_lines, grns, grn_lines,
                                                     lastDoc, collided>>
                                 ELSE /\ persist_structured(parsed.doc)
                                      /\ lastDoc' = parsed.doc
                                      /\ collided' = key_collides(parsed.doc)
                                      /\ IF cb2
                                         THEN except_handler(
                                                  [told EXCEPT !.ingested = @ + 1],
                                                  path, h, "ingested", "callback", cb3)
                                         ELSE count(told, path, h, "ingested",
                                                    "ingested", "ingested", r.why)
    /\ UNCHANGED <<fs, settings, call, reconciliation, rec, lastRun>>

\* ingest.py 114-120: commit, the last callback, return (ingested, skipped, errors)
IngestFinish ==
    /\ ing.pc = "running" /\ ing.idx > Len(ing.all_files)
    /\ \E cb \in Raises :
        ing' = [notify(ing, Len(ing.all_files)) EXCEPT
                   !.pc = IF cb THEN "raised" ELSE "done"]
    /\ UNCHANGED <<fs, settings, call, store, reconciliation, rec, lastRun, thisRun,
                   lastDoc, collided, synced>>

\* between two calls somebody edits a text file of the folder
EditFile ==
    /\ ing.pc # "running" /\ rec.pc # "running"
    /\ \E path \in DOMAIN fs :
        /\ get_file_type(path) = ".txt"
        /\ Edit(fs[path]) # fs[path]
        /\ fs' = [fs EXCEPT ![path] = Edit(fs[path])]
    /\ UNCHANGED <<settings, call, store, reconciliation, ing, rec, lastRun, thisRun,
                   lastDoc, collided, synced>>

-----------------------------------------------------------------------------
(* reconcile                                                               *)

\* the tolerances a call is given, in hundredths: the defaults 1 unit and 2.0 %
QTY_TOLS == {100}
PRICE_TOLS == {200}

\* faulty variant: the records of the run before are not deleted
ReconcileStart_keeping ==
    /\ ing.pc # "running" /\ rec.pc # "running"
    /\ \E qt \in QTY_TOLS, pt \in PRICE_TOLS, cb \in Raises :
        rec' = notify([pc |-> IF cb THEN "raised" ELSE "running",
                       invoices |-> invoice_list(invoices), idx |-> 1,
                       dups |-> duplicate_invoices(invoices),
                       qty_tol |-> qt, price_tol |-> pt, notified |-> <<>>], 0)
    /\ reconciliation' = reconciliation
    /\ synced' = FALSE
    /\ UNCHANGED <<fs, settings, call, store, ing, lastRun, thisRun, lastDoc, collided>>

\* reconcile.py 16-37: DELETE FROM reconciliation, commit, the duplicate set,
\* the list of invoices, the first callback
ReconcileStart ==
    /\ ing.pc # "running" /\ rec.pc # "running"
    /\ \E qt \in QTY_TOLS, pt \in PRICE_TOLS, cb \in Raises :
        rec' = notify([pc |-> IF cb THEN "raised" ELSE "running",
                       invoices |-> invoice_list(invoices), idx |-> 1,
                       dups |-> duplicate_invoices(invoices),
                       qty_tol |-> qt, price_tol |-> pt, notified |-> <<>>], 0)
    /\ reconciliation' = <<>>
    /\ synced' = FALSE
    /\ UNCHANGED <<fs, settings, call, store, ing, lastRun, thisRun, lastDoc, collided>>

\* reconcile.py 39-98: one turn of the loop over the invoices: the callback,
\* the evaluation, the _upsert.  Nothing in reconcile catches an exception.
ReconcileInvoice ==
    /\ rec.pc = "running" /\ rec.idx <= Len(rec.invoices)
    /\ \E cb \in Raises :
        IF cb \/ reconcile_raises(rec.invoices[rec.idx])
        THEN /\ rec' = [notify(rec, rec.idx - 1) EXCEPT !.pc = "raised"]
             /\ UNCHANGED reconciliation
        ELSE /\ reconciliation' =
                    upsert(reconciliation,
                           reconcile_invoice(rec.invoices[rec.idx], rec.dups,
                                             rec.qty_tol, rec.price_tol))
             /\ rec' = [notify(rec, rec.idx - 1) EXCEPT !.idx = @ + 1]
    /\ UNCHANGED <<fs, settings, call, store, ing, lastRun, thisRun, lastDoc, collided, synced>>

\* reconcile.py 100-102: the loop is over, the last callback, the call returns
ReconcileFinish ==
    /\ rec.pc = "running" /\ rec.idx > Len(rec.invoices)
    /\ \E cb \in Raises :
        /\ rec' = [notify(rec, Len(rec.invoices)) EXCEPT
                      !.pc = IF cb THEN "raised" ELSE "done"]
        /\ synced' = ~cb
    /\ UNCHANGED <<fs, settings, call, store, reconciliation, ing, lastRun, thisRun, lastDoc, collided>>

-----
(* The pipeline over a folder                                              *)

FolderPaths == {"a.txt", "b.txt", "d.PNG", "e.csv"}

\* no direct call of classify or extract was made
NoCall == [fn |-> "none", text |-> EmptyText, doc_type |-> "UNKNOWN",
           reply |-> NoReply, result |-> "UNKNOWN", record |-> [ok |-> TRUE, doc |-> NoDoc]]

EmptyStore ==
    /\ documents = {} /\ purchase_orders = {} /\ po_lines = {}
    /\ invoices = <<>> /\ invoice_lines = {} /\ grns = {} /\ grn_lines = {}
    /\ reconciliation = <<>>
    /\ ing = IdleIngest /\ rec = IdleReconcile
    /\ lastRun = [p \in Range(PATHS) |-> NoResult]
    /\ thisRun = [p \in Range(PATHS) |-> NoResult]
    /\ lastDoc = NoDoc
    /\ collided = FALSE
    /\ synced = TRUE
    /\ call = NoCall

Init ==
    /\ \E S \in SUBSET FolderPaths :
        fs \in {f \in [S -> TextContents \cup {ScanInvoice, Memo}] :
                   \A p \in S : f[p] \in ContentsFor(p)}
    /\ OCR_AVAILABLE \in BOOLEAN
    /\ USE_OPENAI = FALSE
    /\ progress_callback = "None"
    /\ EmptyStore

Next ==
    \/ IngestStart
    \/ IngestFile
    \/ IngestFinish
    \/ EditFile
    \/ ReconcileStart
    \/ ReconcileInvoice
    \/ ReconcileFinish

Spec == Init /\ [][Next]_vars

-----------------------------------------------------------------------------
(* The typed tables under a stream of new documents                        *)

InvoiceText(number, vendor, date, total, items) ==
    [kv |-> Header("Invoice",
                   (IF number = NULL THEN <<>> ELSE << <<"invoice number", number>> >>)
                   \o << <<"po number", "P1">>, <<"vendor", vendor>>, <<"date", date>>,
                         <<"total", total>> >>),
     items |-> items, joined |-> FALSE]

POText(vendor, total, items) ==
    [kv |-> Header("Purchase Order",
                   << <<"po number", "P1">>, <<"vendor", vendor>>,
                      <<"date", "2025-07-01">>, <<"total", total>> >>),
     items |-> items, joined |-> FALSE]

GRNText(number, vendor, date, items) ==
    [kv |-> Header("Goods Receipt (GRN)",
                   << <<"grn number", number>>, <<"po number", "P1">>,
                      <<"vendor", vendor>>, <<"date", date>> >>),
     items |-> items, joined |-> FALSE]

Line(sku, qty, price) == Item("full", TRUE, sku, qty, price)
Received(sku, qty) == Item("short", TRUE, sku, qty, "")

InvoiceTexts ==
    {InvoiceText("I2", "V1", "2025-07-03", "100.00", <<Line("X", "10", "5.00")>>),
     InvoiceText("I1", "V1", "2025-07-04", "102.00", <<Line("X", "10", "5.10")>>),
     InvoiceText("I1", "V1", "2025-07-03", "100.00", <<Line("X", "12", "5.00")>>),
     InvoiceText("I2", "V2", "2025-07-03", "100.00",
                 <<Line("X", "12", "5.11"), Line("Y", "10", "5.00")>>),
     InvoiceText(NULL, "V1", "2025-07-03", "102.01", <<Line("X", "12", "5.00")>>),
     InvoiceText("I2", "V1", "2025-07-03", "102.01", <<>>)}

POTexts ==
    {POText("V1", "100.00", <<Line("X", "10", "5.00")>>),
     POText("V1", "0", <<Line("X", "10", "6.00")>>),
     POText("V2", "100.00", <<Line("X", "12", "5.00"), Line("Y", "10", "5.00")>>)}

GRNTexts ==
    {GRNText("G1", "V1", "2025-07-02", <<Received("X", "10")>>),
     GRNText("G1", "V2", "2025-07-05", <<Received("X", "12")>>),
     GRNText("G2", "V1", "2025-07-02", <<Received("X", "2")>>)}

NewTexts == InvoiceTexts \cup POTexts \cup GRNTexts

\* the number of header rows the stream may build up
MaxRows == 3

HeaderRows(pos, invs, gs) == Cardinality(pos) + Len(invs) + Cardinality(gs)

\* ingest.py 62-63: what classify and extract make of the new texts, the
\* external strategy switched off
NewDocs ==
    {regex_extract(t, classify(t)).doc :
        t \in {u \in NewTexts : regex_extract(u, classify(u)).ok}}

\* ingest.py 96: the dict of a new file is fanned out into the typed tables
PersistDoc ==
    /\ ing.pc # "running" /\ rec.pc # "running"
    /\ \E doc \in NewDocs :
        /\ persist_structured(doc)
        /\ lastDoc' = doc
        /\ collided' = key_collides(doc)
    /\ HeaderRows(purchase_orders', invoices', grns') <= MaxRows
    /\ synced' = FALSE
    /\ UNCHANGED <<fs, settings, call, documents, reconciliation, ing, rec, lastRun, thisRun>>

InitStore ==
    /\ fs = [p \in {} |-> Memo]
    /\ OCR_AVAILABLE = FALSE
    /\ USE_OPENAI = FALSE
    /\ progress_callback = "None"
    /\ EmptyStore

NextStore ==
    \/ PersistDoc
    \/ ReconcileStart
    \/ ReconcileInvoice
    \/ ReconcileFinish

SpecStore == InitStore /\ [][NextStore]_vars

-----------------------------------------------------------------------------
(* Properties of ingestion                                                 *)

\* the paths the current run has handled so far, and what it made of them
Handled(p) == thisRun[p].res # "none"

\* C1: a file ingested by one run and met again by the next run with the same
\* path and the same content is not ingested again and counts as skipped
C1_RerunSkips ==
    \A i \in 1..Len(PATHS) :
        LET p == PATHS[i]
        IN  (/\ lastRun[p].res = "ingested"
             /\ Handled(p)
             /\ thisRun[p].hash = lastRun[p].hash)
            => thisRun[p].res = "skipped"

\* C2: no two rows of documents share a path, and no two share a hash
C2_UniquePathAndHash ==
    \A d1, d2 \in documents :
        d1 # d2 => d1.path # d2.path /\ d1.hash # d2.hash

\* C2 at work: two files of one folder hold the same bytes; one run has
\* ingested the first and skipped the second
C2_Witness ==
    /\ {"a.txt", "b.txt"} \subseteq DOMAIN fs
    /\ fs["a.txt"] = fs["b.txt"]
    /\ thisRun["a.txt"].res = "ingested"
    /\ thisRun["b.txt"].res = "skipped"
    /\ \E d \in documents : d.path = "a.txt" /\ d.hash = file_hash(fs["b.txt"])

-----------------------------------------------------------------------------
(* Properties of reconcile                                                 *)

\* the records in the table were computed from the tables as they are now:
\* a run is under way, or it has returned and nothing was written since
Fresh == rec.pc = "running" \/ (rec.pc = "done" /\ synced)
Reconciled == rec.pc = "done" /\ synced

RecordsOf(number) ==
    {i \in 1..Len(reconciliation) : reconciliation[i].invoice_number = number}

HasPO(po_no, vendor) ==
    \E po \in purchase_orders : po.po_number = po_no /\ po.vendor = vendor

HasGRN(po_no, vendor) ==
    \E g \in grns : g.po_number = po_no /\ g.vendor = vendor

LinesOf(number) == {il \in invoice_lines : SqlEq(il.invoice_number, number)}

QtyOff(il, po_no, qty_tol) == Abs(il.qty - received_qty(po_no, il.sku)) > qty_tol

PriceOff(il, po_no, price_tol) ==
    LET pprice == po_price(po_no, il.sku, il.unit_price)
    IN  pprice # 0 /\ Abs(il.unit_price - pprice) * 10000 > price_tol * Abs(pprice)

CleanInvoice(inv) ==
    /\ inv.invoice_number \notin rec.dups
    /\ \E po \in purchase_orders :
           po.po_number = inv.po_number /\ po.vendor = inv.vendor
           /\ po.total_amount # 0
    /\ HasGRN(inv.po_number, inv.vendor)
    /\ \A il \in LinesOf(inv.invoice_number) :
           /\ ~QtyOff(il, inv.po_number, rec.qty_tol)
           /\ ~PriceOff(il, inv.po_number, rec.price_tol)

\* the PO total the invoice is billed against
POTotal(inv) ==
    (CHOOSE po \in purchase_orders :
        po.po_number = inv.po_number /\ po.vendor = inv.vendor).total_amount

\* (invoice total - PO total) / PO total * 100 against a tolerance given in
\* hundredths of a percent, both sides multiplied by |PO total| * 100
Sgn(n) == IF n < 0 THEN -1 ELSE 1

RatioAbove(inv, tol) ==
    (inv.total_amount - POTotal(inv)) * 10000 * Sgn(POTotal(inv))
        > tol * Abs(POTotal(inv))
RatioEqual(inv, tol) ==
    (inv.total_amount - POTotal(inv)) * 10000 * Sgn(POTotal(inv))
        = tol * Abs(POTotal(inv))

\* what C5 says of the record of one invoice
StrictOverbill(inv) ==
    CleanInvoice(inv)
    => /\ \A i \in RecordsOf(inv.invoice_number) :
              /\ RatioAbove(inv, rec.price_tol)
                    => reconciliation[i].status = "OVERBILL"
              /\ RatioEqual(inv, rec.price_tol)
                    => reconciliation[i].status = "MATCH"
       /\ Reconciled => RecordsOf(inv.invoice_number) # {}

StoredNumbers ==
    {invoices[k].invoice_number : k \in 1..Len(invoices)}
    \cup {reconciliation[i].invoice_number : i \in 1..Len(reconciliation)}

InvoicesOf(number) ==
    {k \in 1..Len(invoices) : invoices[k].invoice_number = number}

\* C7: when a reconcile run has returned, the table holds one record for each
\* invoice of the invoices table and none under any other number, whatever
\* earlier runs had left; and never two records under one invoice number
C7_OneRecordPerInvoice ==
    /\ \A i, j \in 1..Len(reconciliation) :
           (i # j) => ~SqlEq(reconciliation[i].invoice_number,
                            reconciliation[j].invoice_number)
    /\ Reconciled => \A n \in StoredNumbers :
           Cardinality(RecordsOf(n)) = Cardinality(InvoicesOf(n))

\* C7 at work: a run has returned over two invoices, one of them stored
\* without a number
C7_Witness ==
    /\ Reconciled
    /\ Len(invoices) = 2 /\ Len(reconciliation) = 2
    /\ \E k \in 1..Len(invoices) : invoices[k].invoice_number = NULL
    /\ \E k \in 1..Len(invoices) : invoices[k].invoice_number # NULL

-----------------------------------------------------------------------------
(* Properties of the typed tables                                          *)

\* C8: a stored PO header, and a stored GRN header, stays as it is whatever
\* is persisted later: after every step it is still the one row of its key
C8_HeadersFirstWriteWins ==
    [][/\ \A r \in purchase_orders :
            {q \in purchase_orders' : q.po_number = r.po_number
                                      /\ q.vendor = r.vendor} = {r}
       /\ \A g \in grns :
            {q \in grns' : q.grn_number = g.grn_number} = {g}]_vars

\* C8 at work: the PO last persisted met a stored header of its key with
\* another total, and the stored one is the header of before
C8_Witness ==
    /\ lastDoc.type = "PO" /\ collided
    /\ \E r \in purchase_orders :
           /\ r.po_number = lastDoc.po_number /\ r.vendor = lastDoc.vendor
           /\ r.total_amount # lastDoc.total_amount

\* C9 as stated: a stored PO line, and a stored GRN line, stays as it is
\* whatever is persisted later
C9_LinesFirstWriteWins ==
    [][/\ \A l \in po_lines :
            {q \in po_lines' : q.po_number = l.po_number /\ q.sku = l.sku} = {l}
       /\ \A l \in grn_lines :
            {q \in grn_lines' : q.grn_number = l.grn_number /\ q.sku = l.sku} = {l}]_vars

\* C10: once an invoice document with a number is persisted, the invoices
\* table holds one row under that number, and the row has the document's
\* po_number, vendor, country, currency, date and total
C10_InvoicesLastWriteWins ==
    (lastDoc.type = "INVOICE" /\ lastDoc.invoice_number # NULL)
    => /\ Cardinality(InvoicesOf(lastDoc.invoice_number)) = 1
       /\ \A k \in InvoicesOf(lastDoc.invoice_number) :
              /\ invoices[k].po_number = lastDoc.po_number
              /\ invoices[k].vendor = lastDoc.vendor
              /\ invoices[k].country = lastDoc.country
              /\ invoices[k].currency = lastDoc.currency
              /\ invoices[k].invoice_date = lastDoc.date
              /\ invoices[k].total_amount = lastDoc.total_amount

\* C10 at work: the invoice last persisted met a stored header of its number
\* with other values
C10_Witness ==
    /\ lastDoc.type = "INVOICE" /\ lastDoc.invoice_number # NULL /\ collided
    /\ Cardinality(InvoicesOf(lastDoc.invoice_number)) = 1

-----------------------------------------------------------------------------
(* End to end: one PO, one GRN for it, one invoice for it                  *)

E2EPaths == {"a.txt", "b.txt", "c.txt"}

\* the three documents, item labels in either case, one to a file in any order
E2EFolders ==
    {f \in [E2EPaths -> {PO1000(l) : l \in BOOLEAN} \cup {GRN1000(l) : l \in BOOLEAN}
                            \cup {INV1000(l) : l \in BOOLEAN}] :
        {classify(f[p]) : p \in E2EPaths} = {"PO", "GRN", "INVOICE"}}

InitE2E ==
    /\ fs \in E2EFolders
    /\ OCR_AVAILABLE \in BOOLEAN
    /\ USE_OPENAI = FALSE
    /\ progress_callback = "None"
    /\ EmptyStore

NextE2E ==
    \/ IngestStart
    \/ IngestFile
    \/ IngestFinish
    \/ ReconcileStart
    \/ ReconcileInvoice
    \/ ReconcileFinish

SpecE2E == InitE2E /\ [][NextE2E]_vars

\* C6 as stated: with the three files ingested, in whatever order, and a reconcile run
\* with the default tolerances returned after that, the reconciliation table
\* holds one record, that of INV-1000-1: MATCH, qty_var 0, price_var_pct 0
C6_EndToEndMatch ==
    (Cardinality(documents) = 3 /\ Reconciled
     /\ rec.qty_tol = 100 /\ rec.price_tol = 200)
    => /\ Len(reconciliation) = 1
       /\ reconciliation[1].invoice_number = "INV-1000-1"
       /\ reconciliation[1].status = "MATCH"
       /\ reconciliation[1].qty_var = 0
       /\ reconciliation[1].price_var_pct = FracZero

-----------------------------------------------------------------------------
(* Properties settled on the typed tables, continued                       *)

\* the rows the items of an invoice document make in invoice_lines
LinesOfDoc(doc) ==
    {[invoice_number |-> doc.invoice_number, sku |-> doc.items[i].sku,
      description |-> doc.items[i].description, qty |-> doc.items[i].qty,
      unit_price |-> doc.items[i].unit_price] : i \in 1..Len(doc.items)}

\* C11 as stated: once an invoice document with a number is persisted, the
\* invoice_lines rows under that number are exactly the lines of the document
C11_LinesOverwritten ==
    (lastDoc.type = "INVOICE" /\ lastDoc.invoice_number # NULL)
    => {il \in invoice_lines : il.invoice_number = lastDoc.invoice_number}
           = LinesOfDoc(lastDoc)

-----------------------------------------------------------------------------
(* The pipeline with the external extraction strategy switched on          *)

\* the folders: up to two text files, or a text file and a scan
ServiceFolders == (SUBSET {"a.txt", "b.txt"}) \cup {{"a.txt", "d.PNG"}}

InitService ==
    /\ \E S \in ServiceFolders :
        fs \in {f \in [S -> TextContents \cup {ScanInvoice}] :
                   \A p \in S : f[p] \in ContentsFor(p)}
    /\ OCR_AVAILABLE = TRUE
    /\ USE_OPENAI = TRUE
    /\ progress_callback = "None"
    /\ EmptyStore

SpecService == InitService /\ [][Next]_vars

-----------------------------------------------------------------------------
(* The pipeline called with a progress callback                            *)

CallbackPaths == {"a.txt", "e.csv"}

InitCallback ==
    /\ \E S \in SUBSET CallbackPaths :
        fs \in {f \in [S -> TextContents \cup {Memo}] :
                   \A p \in S : f[p] \in ContentsFor(p)}
    /\ OCR_AVAILABLE = FALSE
    /\ USE_OPENAI = FALSE
    /\ progress_callback \in {"reports", "fails"}
    /\ EmptyStore

SpecCallback == InitCallback /\ [][Next]_vars
-----------------------------------------------------------------------------
(* classify and extract called directly                                    *)

\* the header lines a text is made of: a title line or a numbered field
HEADERS ==
    {<<"document type", v>> : v \in {"Purchase Order", "Invoice", "Goods Receipt (GRN)",
                                     "Note"}}
    \cup {<<k, "1">> : k \in {"invoice number", "po number", "grn number", "subject"}}

\* the number of header lines of a text handed to classify
MaxHeaders == 2

HeaderSeqs(n) == UNION {[1..k -> HEADERS] : k \in 0..n}

ClassifyTexts == {[kv |-> kv, items |-> <<>>, joined |-> FALSE] : kv \in HeaderSeqs(MaxHeaders)}

KINDS == {"PO", "INVOICE", "GRN", "UNKNOWN"}

\* classify_extract.py 23-33, called with a text
ClassifyCall ==
    /\ \E text \in ClassifyTexts :
        call' = [NoCall EXCEPT !.fn = "classify", !.text = text,
                               !.result = classify(text)]
    /\ UNCHANGED <<fs, settings, store, reconciliation, ing, rec, lastRun, thisRun,
                   lastDoc, collided, synced>>

\* classify_extract.py 153-161, called with a text and a kind; the service,
\* when it is asked, answers with one of its replies
ExtractCall ==
    /\ \E text \in TextContents, doc_type \in KINDS :
        \E reply \in Replies(text, doc_type) :
            call' = [NoCall EXCEPT !.fn = "extract", !.text = text,
                                   !.doc_type = doc_type, !.reply = reply,
                                   !.record = extract(text, doc_type, reply)]
    /\ UNCHANGED <<fs, settings, store, reconciliation, ing, rec, lastRun, thisRun,
                   lastDoc, collided, synced>>

InitCalls ==
    /\ fs = [p \in {} |-> Memo]
    /\ OCR_AVAILABLE = FALSE
    /\ USE_OPENAI \in BOOLEAN
    /\ progress_callback = "None"
    /\ EmptyStore

NextCalls ==
    \/ ClassifyCall
    \/ ExtractCall

SpecCalls == InitCalls /\ [][NextCalls]_vars
-----------------------------------------------------------------------------
(* Properties of a run in which steps fail                                 *)

\* C12: a failure at a step of the processing of one supported file (content
\* extraction, field extraction, Document insert, fan-out) adds one to the
\* error count and to no other counter, and the loop goes on with the next
\* file; no exception leaves ingest_folder, and a run that returned has
\* handled every file of its list
C12_FailureCountedRunContinues ==
    /\ [](ing.pc # "raised")
    /\ [][\A p \in Range(PATHS) :
            (thisRun[p].res = "none" /\ thisRun'[p].res = "error")
            => /\ ing'.errors = ing.errors + 1
               /\ ing'.ingested = ing.ingested
               /\ ing'.skipped = ing.skipped
               /\ ing'.idx = ing.idx + 1
               /\ ing'.pc = "running"]_vars
    /\ [](ing.pc = "done" => \A i \in 1..Len(ing.all_files) : Handled(ing.all_files[i]))

\* a run returned in which the fan-out of the first file failed and the
\* second file was ingested
C12_Witness ==
    /\ ing.pc = "done"
    /\ Len(ing.all_files) = 2
    /\ thisRun[ing.all_files[1]].res = "error"
    /\ thisRun[ing.all_files[1]].step = "fan-out"
    /\ thisRun[ing.all_files[2]].res = "ingested"
    /\ ing.errors = 1 /\ ing.ingested = 1
\* C13 as stated: whatever the store holds, totals of NULL included, no
\* reconcile run is aborted by the data of an invoice: the run goes through
\* its whole list and returns with a record written for every invoice of it
C13_ReconcileRunsToCompletion ==
    /\ rec.pc # "raised"
    /\ (rec.pc = "done" /\ synced)
       => \A i \in 1..Len(rec.invoices) :
             \E k \in 1..Len(reconciliation) :
                 reconciliation[k].invoice_number = rec.invoices[i].invoice_number
\* C14 as stated: a file is ingested atomically: the turn of the loop that
\* counts a file as an error leaves documents and every typed table as they
\* were, so that a later run would not find the file ingested
C14_ErrorLeavesNoRow ==
    [][\A p \in Range(PATHS) :
          (thisRun[p].res = "none" /\ thisRun'[p].res = "error")
          => UNCHANGED store]_vars
\* the deadlines of the Content Extractor that can expire on a file of the folder
DEADLINES == {"deadline of image OCR", "deadline of text recognition"}

\* C15 as stated: the expiry of a deadline inside the Content Extractor is
\* made good on the spot with an empty text: read_document_content does not
\* fail on it and the file is not counted as an error
C15_DeadlineNeverAnError ==
    \A p \in Range(PATHS) :
        thisRun[p].why \in DEADLINES => thisRun[p].res # "error"
\* C17 as stated: a progress callback that raises on any of its invocations
\* does not abort the call: neither ingest_folder nor reconcile is left by
\* an exception
C17_CallbackFailureTolerated ==
    ing.pc # "raised" /\ rec.pc # "raised"

\* the extensions the pipeline supports, in lower case
SupportedExtensions == {".txt", ".pdf", ".jpg", ".jpeg", ".png", ".tiff", ".tif", ".bmp"}

\* the extension of the file, the case of its letters ignored, is not supported
Unsupported(p) == str_lower(suffix(p)) \notin SupportedExtensions

\* C19: a file is turned away as unsupported exactly when its extension,
\* compared without regard to case, is none of the supported ones; the turn
\* of the loop that handles such a file counts it as skipped, not as an
\* error, and writes no Document row and no typed row
C19_UnsupportedSkipped ==
    /\ [](\A p \in Range(PATHS) :
            Handled(p) => /\ Unsupported(p) <=> thisRun[p].step = "unsupported"
                          /\ Unsupported(p) => /\ thisRun[p].res = "skipped"
                                               /\ \A d \in documents : d.path # p)
    /\ [][\A p \in Range(PATHS) :
            (Unsupported(p) /\ thisRun[p].res = "none" /\ thisRun'[p].res # "none")
            => /\ ing'.skipped = ing.skipped + 1
               /\ ing'.errors = ing.errors
               /\ ing'.ingested = ing.ingested
               /\ UNCHANGED store]_vars

\* a run returned that skipped e.csv and ingested the scan d.PNG
C19_Witness ==
    /\ ing.pc = "done"
    /\ thisRun["e.csv"].res = "skipped" /\ thisRun["e.csv"].step = "unsupported"
    /\ thisRun["d.PNG"].res = "ingested"
    /\ ing.skipped = 1

-----------------------------------------------------------------------------
(* Properties of classify and extract                                      *)

\* C16 as stated: with the external strategy switched on, when the call of
\* the service fails or its response is no JSON of the expected shape,
\* extract(text, kind) returns exactly what the deterministic strategy
\* returns for the same text and kind
C16_FallbackIsDeterministic ==
    (call.fn = "extract" /\ USE_OPENAI /\ call.reply.kind \in {"raise", "not_json"})
    => call.record = regex_extract(call.text, call.doc_type)
\* the text handed to classify holds, in any case of letters, a marker of the group
Mentions(group) == MarkersOf(call.text) \cap group # {}

\* C18: classify returns GRN when the text holds a GRN marker, else INVOICE
\* when it holds an invoice marker, else PO when it holds a PO marker, the
\* case of the letters ignored; a text with no marker is UNKNOWN
C18_ClassifyPriority ==
    call.fn = "classify"
    => /\ Mentions(GRN_MARKERS) => call.result = "GRN"
       /\ (~Mentions(GRN_MARKERS) /\ Mentions(INVOICE_MARKERS)) => call.result = "INVOICE"
       /\ (~Mentions(GRN_MARKERS) /\ ~Mentions(INVOICE_MARKERS) /\ Mentions(PO_MARKERS))
          => call.result = "PO"
       /\ (~Mentions(GRN_MARKERS) /\ ~Mentions(INVOICE_MARKERS) /\ ~Mentions(PO_MARKERS))
          => call.result = "UNKNOWN"

\* a text titled "Goods Receipt (GRN)" that also carries a PO number is a GRN
C18_Witness ==
    /\ call.fn = "classify"
    /\ call.text.kv = << <<"document type", "Goods Receipt (GRN)">>, <<"po number", "1">> >>
    /\ call.result = "GRN"

-----------------------------------------------------------------------------
(* Properties of the gated checks of reconcile                             *)

\* an invoice row of the duplicate set with a purchase order of its
\* (po_number, vendor), no GRN of it, and no line stored under its number
\* that is off the received quantity by more than the tolerance
DupWithoutGRN(inv) ==
    /\ inv.invoice_number \in rec.dups
    /\ HasPO(inv.po_number, inv.vendor)
    /\ ~HasGRN(inv.po_number, inv.vendor)
    /\ \A il \in LinesOf(inv.invoice_number) : ~QtyOff(il, inv.po_number, rec.qty_tol)

RecordedAs(inv, status) ==
    /\ \A i \in RecordsOf(inv.invoice_number) : reconciliation[i].status = status
    /\ Reconciled => RecordsOf(inv.invoice_number) # {}

SKU_ORDERS == {o \in [1..Len(SKUS) -> Range(SKUS)] : Range(o) = Range(SKUS)}

\* the line's SKU has a PO line of nonzero unit price, and the line's price is
\* off it by strictly more than the tolerance (in hundredths of a percent)
PriceBeyond(il, po_no, price_tol) ==
    \E pl \in po_lines :
        /\ pl.po_number = po_no /\ pl.sku = il.sku
        /\ pl.unit_price # 0
        /\ Abs(il.unit_price - pl.unit_price) * 10000 > price_tol * Abs(pl.unit_price)

\* what C22 requires for PRICE_VAR
PriceVarDue(inv) ==
    /\ inv.invoice_number \notin rec.dups
    /\ HasGRN(inv.po_number, inv.vendor)
    /\ \A il \in LinesOf(inv.invoice_number) : ~QtyOff(il, inv.po_number, rec.qty_tol)
    /\ \E il \in LinesOf(inv.invoice_number) : PriceBeyond(il, inv.po_number, rec.price_tol)

Overbills(inv) ==
    /\ HasPO(inv.po_number, inv.vendor)
    /\ POTotal(inv) # 0
    /\ RatioAbove(inv, rec.price_tol)

\* none of DUP_INVOICE, MISSING_GRN, QTY_VAR, PRICE_VAR is set for the invoice
NothingSetEarlier(inv) ==
    /\ inv.invoice_number \notin rec.dups
    /\ HasGRN(inv.po_number, inv.vendor)
    /\ \A il \in LinesOf(inv.invoice_number) :
           /\ ~QtyOff(il, inv.po_number, rec.qty_tol)
           /\ ~PriceBeyond(il, inv.po_number, rec.price_tol)

\* an OVERBILL record is one of an overbilling invoice for which nothing was
\* set earlier
OverbillOnlyFromMatch(inv) ==
    \A i \in RecordsOf(inv.invoice_number) :
        reconciliation[i].status = "OVERBILL"
            => Overbills(inv) /\ NothingSetEarlier(inv)

-----------------------------------------------------------------------------
(* Properties of reconcile over records the external strategy produced     *)

\* C24 as stated: every invoice whose stored row lacks the currency or the
\* total amount is recorded as MISSING_INVOICE_DATA
C24_AbsentDataIsMissing ==
    Fresh => \A k \in 1..Len(invoices) :
        (invoices[k].currency = NULL \/ invoices[k].total_amount = NONE)
            => RecordedAs(invoices[k], "MISSING_INVOICE_DATA")

-----------------------------------------------------------------------------
(* Properties of the recorded variances and comments                       *)

\* the place of a SKU in an order of evaluation
PlaceIn(order, sku) == CHOOSE i \in 1..Len(order) : order[i] = sku

\* the lines reconcile evaluates for an invoice: those stored under its
\* number, when its own row and a purchase order of it are found
EvaluatedLines(inv) ==
    IF inv.invoice_number # NULL /\ HasPO(inv.po_number, inv.vendor)
    THEN LinesOf(inv.invoice_number) ELSE {}

\* invoice quantity minus received quantity of the line evaluated last among
\* those beyond the quantity tolerance; 0 when there is none
LastQtyVar(inv, order) ==
    LET off == {il \in EvaluatedLines(inv) : QtyOff(il, inv.po_number, rec.qty_tol)}
    IN  IF off = {} THEN 0
        ELSE LET last == CHOOSE il \in off : \A other \in off :
                             PlaceIn(order, other.sku) <= PlaceIn(order, il.sku)
             IN  last.qty - received_qty(inv.po_number, last.sku)

\* the lines that set PRICE_VAR: beyond the price tolerance and met while
\* nothing else had been set, neither before the lines nor by a line up to it
Triggering(inv, order) ==
    {il \in EvaluatedLines(inv) :
        /\ inv.invoice_number \notin rec.dups
        /\ HasGRN(inv.po_number, inv.vendor)
        /\ PriceBeyond(il, inv.po_number, rec.price_tol)
        /\ \A other \in EvaluatedLines(inv) :
               PlaceIn(order, other.sku) <= PlaceIn(order, il.sku)
                   => ~QtyOff(other, inv.po_number, rec.qty_tol)
        /\ \A other \in EvaluatedLines(inv) :
               PlaceIn(order, other.sku) < PlaceIn(order, il.sku)
                   => ~PriceBeyond(other, inv.po_number, rec.price_tol)}

\* the signed percentage (invoice price - PO price) / PO price * 100 of the
\* triggering line; 0 when there is none
TriggerPct(inv, order) ==
    IF Triggering(inv, order) = {} THEN FracZero
    ELSE LET il == CHOOSE il \in Triggering(inv, order) : TRUE
             pl == CHOOSE pl \in po_lines :
                       pl.po_number = inv.po_number /\ pl.sku = il.sku
         IN  Frac((il.unit_price - pl.unit_price) * 100, pl.unit_price)

\* C25: the qty_var of a record is invoice quantity minus received quantity
\* of the last evaluated line beyond the quantity tolerance, its price_var_pct
\* is the signed percentage of the line that set PRICE_VAR, and each is 0 when
\* no line did; so for the record a run wrote, and for the evaluation in
\* whatever order it takes the lines
C25_VariancesOfTriggeringLines ==
    Fresh => \A k \in 1..Len(invoices) :
        LET inv == invoices[k]
            row == [invoice_number |-> inv.invoice_number,
                    po_number |-> inv.po_number, vendor |-> inv.vendor]
        IN  /\ \A i \in RecordsOf(inv.invoice_number) :
                   /\ reconciliation[i].qty_var = LastQtyVar(inv, SKUS)
                   /\ reconciliation[i].price_var_pct = TriggerPct(inv, SKUS)
            /\ \A o \in SKU_ORDERS :
                   LET r == reconcile_invoice_in(row, rec.dups, rec.qty_tol,
                                                 rec.price_tol, o)
                   IN  /\ r.qty_var = LastQtyVar(inv, o)
                       /\ r.price_var_pct = TriggerPct(inv, o)

\* C25 at work: a record whose line X set PRICE_VAR and whose later line Y,
\* beyond the quantity tolerance, set QTY_VAR: it carries both variances
C25_Witness ==
    /\ Reconciled
    /\ \E i \in 1..Len(reconciliation) :
        /\ reconciliation[i].status = "QTY_VAR"
        /\ reconciliation[i].qty_var # 0
        /\ reconciliation[i].price_var_pct # FracZero

\* Two vendors trading under one PO number: the documents of a folder in
\* which vendor V1 has invoiced PO P1 and has delivered nothing, and vendor V2
\* has invoiced its own PO P1 and has delivered one of the two SKUs
VendorTexts ==
    {InvoiceText("I1", "V1", "2025-07-03", "100.00", <<Line("X", "10", "5.00")>>),
     InvoiceText("I2", "V2", "2025-07-03", "100.00",
                 <<Line("X", "12", "5.11"), Line("Y", "10", "5.00")>>),
     POText("V1", "100.00", <<Line("X", "10", "5.00")>>),
     POText("V2", "100.00", <<Line("X", "12", "5.00"), Line("Y", "10", "5.00")>>),
     GRNText("G1", "V2", "2025-07-05", <<Received("X", "12")>>)}

\* ingest.py 62-63: what classify and extract make of them
VendorDocs == {regex_extract(t, classify(t)).doc : t \in VendorTexts}

\* ingest.py 96: the dict of one of these files is fanned out into the tables
PersistVendorDoc ==
    /\ ing.pc # "running" /\ rec.pc # "running"
    /\ \E doc \in VendorDocs :
        /\ persist_structured(doc)
        /\ lastDoc' = doc
        /\ collided' = key_collides(doc)
    /\ synced' = FALSE
    /\ UNCHANGED <<fs, settings, call, documents, reconciliation, ing, rec, lastRun, thisRun>>

NextVendors ==
    \/ PersistVendorDoc
    \/ ReconcileStart
    \/ ReconcileInvoice
    \/ ReconcileFinish

SpecVendors == InitStore /\ [][NextVendors]_vars

\* C26 as stated: two records of the same status carry the same comment
C26_CommentFixedPerStatus ==
    \A i, j \in 1..Len(reconciliation) :
        reconciliation[i].status = reconciliation[j].status
            => reconciliation[i].comments = reconciliation[j].comments

-----------------------------------------------------------------------------
(* Properties of the scope of the line data                                *)

\* the quantity of a SKU received by the GRNs of a (po_number, vendor)
ScopedReceived(po_no, vendor, sku) ==
    SumQty({gl \in grn_lines :
               /\ gl.sku = sku
               /\ \E g \in grns : /\ g.grn_number = gl.grn_number
                                  /\ g.po_number = po_no /\ g.vendor = vendor})

\* C27 as stated, for the received quantities: the record of an invoice with
\* a matching purchase order is QTY_VAR exactly when one of its lines is off
\* the quantity received by the GRNs of its own (po_number, vendor); what a
\* GRN of another vendor received under the same PO number changes nothing
C27_LinesScopedToVendor ==
    Fresh => \A i \in 1..Len(reconciliation) :
        LET r == reconciliation[i]
        IN  HasPO(r.po_number, r.vendor)
            => (r.status = "QTY_VAR"
                <=> \E il \in LinesOf(r.invoice_number) :
                        Abs(il.qty - ScopedReceived(r.po_number, r.vendor, il.sku))
                            > rec.qty_tol)

-----------------------------------------------------------------------------
(* Properties of the duplicate set and of the order of evaluation          *)

\* another invoice of the store has the vendor, the total and the date of
\* the k-th
HasTwin(k) ==
    \E j \in 1..Len(invoices) :
        /\ j # k
        /\ invoices[j].vendor = invoices[k].vendor
        /\ invoices[j].total_amount = invoices[k].total_amount
        /\ invoices[j].invoice_date = invoices[k].invoice_date

NumberRank(n) ==
    CASE n = NULL -> 0
      [] n = "I1" -> 1
      [] n = "I2" -> 2
      [] OTHER    -> 3

\* C29 as stated: the invoices a run goes through, and the records it has
\* written so far, are in ascending order of the invoice number
C29_AscendingNumberOrder ==
    rec.pc = "running"
    => /\ \A i, j \in 1..Len(rec.invoices) :
              i < j => NumberRank(rec.invoices[i].invoice_number)
                           <= NumberRank(rec.invoices[j].invoice_number)
       /\ \A i, j \in 1..Len(reconciliation) :
              i < j => NumberRank(reconciliation[i].invoice_number)
                           <= NumberRank(reconciliation[j].invoice_number)

-----------------------------------------------------------------------------
(* Properties of the identity of a Document                                *)

\* the step hands file p to the loop of ingest_folder
Handles(p) == thisRun'[p] # thisRun[p] /\ thisRun'[p].res # "none"

\* C30 as stated: a file met by a run while a Document with its path, or one
\* with its content hash, is stored is skipped, and the step leaves every
\* table as it was
C30_PathOrHashSkips ==
    [][\A p \in Range(PATHS) :
          (/\ Handles(p)
           /\ \E d \in documents : d.path = p \/ d.hash = thisRun'[p].hash)
          => /\ thisRun'[p].res = "skipped"
             /\ UNCHANGED store]_vars

-----------------------------------------------------------------------------
(* with_timeout: a caller, and the worker threads of its calls             *)

\* the number of with_timeout calls the caller makes one after the other
MaxCalls == 3

\* the calls made so far, each with the locals of its own invocation, and the
\* way each of them ended
Frames == IF call.fn = "with_timeout" THEN call.frames ELSE <<>>
Outcomes == IF call.fn = "with_timeout" THEN call.outcomes ELSE <<>>
CallerPc == IF call.fn = "with_timeout" THEN call.pc ELSE "idle"

\* faulty variant: the three slots are shared by all calls, a worker writes
\* into those of the newest call
slot_shared(frames, i) == Len(frames)

\* pdf_processor.py 77-79, 81: result, exception and completed are locals of
\* the invocation, and target is a closure over them: the worker of call i
\* writes into the slots of call i
slot(frames, i) == i

\* pdf_processor.py 74-92: the slots are created, the thread is started and
\* the caller waits in join.  func is what the function of this call will do
\* when it comes to an end: return its own value n or raise its own error n.
TimeoutStart ==
    /\ CallerPc = "idle" /\ Len(Frames) < MaxCalls
    /\ \E kind \in {"returns", "raises"} :
        call' = [fn |-> "with_timeout",
                 frames |-> Append(Frames,
                     [result |-> 0, exception |-> 0, completed |-> FALSE,
                      worker |-> "running",
                      func |-> [kind |-> kind, value |-> Len(Frames) + 1]]),
                 outcomes |-> Outcomes, pc |-> "join"]
    /\ UNCHANGED <<fs, settings, store, reconciliation, ing, rec, lastRun, thisRun,
                   lastDoc, collided, synced>>

\* pdf_processor.py 83, 86: the function of call i comes to an end and the
\* worker stores what it returned, or what it raised
WorkerStore ==
    /\ \E i \in 1..Len(Frames) :
        /\ Frames[i].worker = "running"
        /\ LET f == Frames[i]
               s == slot(Frames, i)
               stored == IF f.func.kind = "returns"
                         THEN [Frames EXCEPT ![s].result = f.func.value]
                         ELSE [Frames EXCEPT ![s].exception = f.func.value]
           IN  call' = [call EXCEPT !.frames = [stored EXCEPT ![i].worker = "stored"]]
    /\ UNCHANGED <<fs, settings, store, reconciliation, ing, rec, lastRun, thisRun,
                   lastDoc, collided, synced>>

\* pdf_processor.py 84, 87: the worker sets completed, and the thread ends
WorkerComplete ==
    /\ \E i \in 1..Len(Frames) :
        /\ Frames[i].worker = "stored"
        /\ LET s == slot(Frames, i)
               flagged == [Frames EXCEPT ![s].completed = TRUE]
           IN  call' = [call EXCEPT !.frames = [flagged EXCEPT ![i].worker = "done"]]
    /\ UNCHANGED <<fs, settings, store, reconciliation, ing, rec, lastRun, thisRun,
                   lastDoc, collided, synced>>

\* pdf_processor.py 92: join returns, because the thread has ended or because
\* timeout_seconds have passed, whatever the worker has done by then
JoinReturns ==
    /\ CallerPc = "join"
    /\ call' = [call EXCEPT !.pc = "check"]
    /\ UNCHANGED <<fs, settings, store, reconciliation, ing, rec, lastRun, thisRun,
                   lastDoc, collided, synced>>

\* pdf_processor.py 94-101: the deadline check and what follows it: TimeoutError
\* when completed is not set, else the stored exception is raised when there
\* is one, else the stored result is returned.  finished records whether the
\* worker of this call had ended when the check was made.
DeadlineCheck ==
    /\ CallerPc = "check"
    /\ LET n == Len(Frames)
           f == Frames[n]
           outcome == IF ~f.completed
                      THEN [kind |-> "TimeoutError", value |-> 0]
                      ELSE IF f.exception # 0
                      THEN [kind |-> "raised", value |-> f.exception]
                      ELSE [kind |-> "returned", value |-> f.result]
       IN  call' = [call EXCEPT
                       !.outcomes = Append(@, [kind |-> outcome.kind,
                                               value |-> outcome.value,
                                               finished |-> f.worker = "done"]),
                       !.pc = "idle"]
    /\ UNCHANGED <<fs, settings, store, reconciliation, ing, rec, lastRun, thisRun,
                   lastDoc, collided, synced>>

NextTimeout ==
    \/ TimeoutStart
    \/ WorkerStore
    \/ WorkerComplete
    \/ JoinReturns
    \/ DeadlineCheck

SpecTimeout == InitStore /\ [][NextTimeout]_vars

\* C31: a call returns the value, or raises the error, of its own function,
\* and only when its worker had ended at the deadline check; it raises
\* TimeoutError exactly when the worker had not; a worker changes the slots
\* of no call but its own, and the way a call ended is never changed later
C31_AbandonedWorkerNeverInterferes ==
    /\ [](\A n \in 1..Len(Outcomes) :
            LET o == Outcomes[n]
                f == Frames[n].func
            IN  /\ o.kind = "TimeoutError" <=> ~o.finished
                /\ o.kind = "returned"
                      => f.kind = "returns" /\ o.value = f.value
                /\ o.kind = "raised"
                      => f.kind = "raises" /\ o.value = f.value)
    /\ [][/\ \A n \in 1..Len(Outcomes) : Outcomes'[n] = Outcomes[n]
          /\ \A i \in 1..Len(Frames) :
                 Frames'[i].worker # Frames[i].worker
                     => \A j \in 1..Len(Frames) :
                            j # i => Frames'[j] = Frames[j]]_vars

\* C31 at work: the first call timed out, its worker ended while the second
\* call was waiting, and the second call returned its own value
C31_Witness ==
    /\ Len(Outcomes) >= 2
    /\ Outcomes[1].kind = "TimeoutError"
    /\ Frames[1].worker = "done" /\ Frames[1].result = 1
    /\ Outcomes[2].kind = "returned" /\ Outcomes[2].value = 2

-----------------------------------------------------------------------------
(* _extract_text_from_pdf_with_ocr: the OCR path of a PDF, page by page     *)

\* the number of pages of the largest PDF
MaxPages == 4

\* what the OCR of one page can come to: the text is recognised; the 10 s
\* deadline of the text recognition expires inside _extract_text_with_tesseract,
\* which returns "" (pdf_processor.py 199-201); the 15 s deadline of the page
\* expires (TimeoutError, 295-297); the call raises another error (298-300)
PAGE_OUTCOMES == {"recognised", "deadline of text recognition",
                  "deadline of page OCR", "error"}

\* a text is the sequence of the page texts it is made of; page k of a PDF
\* holds the text k, or nothing but white space (0)
BlankPage == 0

\* faulty variant: the text of a page is used although its deadline expired
ocr_page_keeps_late(all_text, page_text, outcome) ==
    IF outcome \in {"recognised", "deadline of page OCR"}
           /\ page_text # BlankPage
    THEN Append(all_text, page_text)
    ELSE all_text

\* pdf_processor.py 282-300, one round of the loop: the text of the page is
\* appended when with_timeout returned it and it is not blank; after a
\* deadline or an error the loop continues with all_text as it was
ocr_page(all_text, page_text, outcome) ==
    IF outcome = "recognised" /\ page_text # BlankPage
    THEN Append(all_text, page_text)
    ELSE all_text

\* pdf_processor.py 270 (kwargs first_page 1, last_page 3): the pages that
\* convert_from_path turns into images
last_page(pages) == IF Len(pages) < 3 THEN Len(pages) ELSE 3

PdfOcr == call.fn = "_extract_text_from_pdf_with_ocr"

\* _extract_text_from_pdf_with_ocr is called, with OCR available, on a PDF
\* of up to MaxPages pages
PdfOcrCall ==
    /\ call.fn = "none"
    /\ \E n \in 0..MaxPages :
       \E blank \in SUBSET (1..n) :
        call' = [fn |-> "_extract_text_from_pdf_with_ocr",
                 pages |-> [k \in 1..n |->
                               [text |-> IF k \in blank THEN BlankPage ELSE k,
                                outcome |-> "none"]],
                 images |-> 0, i |-> 0, all_text |-> <<>>, pc |-> "convert"]
    /\ UNCHANGED <<fs, settings, store, reconciliation, ing, rec, lastRun, thisRun,
                   lastDoc, collided, synced>>

\* pdf_processor.py 267-273, 308-313: the conversion returns the images of the
\* first pages, or its 30 s deadline expires or it fails, and the function
\* raises PDFProcessingError
PdfConvert ==
    /\ PdfOcr /\ call.pc = "convert"
    /\ \/ call' = [call EXCEPT !.images = last_page(call.pages), !.i = 1,
                               !.pc = "pages"]
       \/ call' = [call EXCEPT !.pc = "raised"]
    /\ UNCHANGED <<fs, settings, store, reconciliation, ing, rec, lastRun, thisRun,
                   lastDoc, collided, synced>>

\* pdf_processor.py 279-300: one round of the loop over the images
PdfOcrPage ==
    /\ PdfOcr /\ call.pc = "pages" /\ call.i <= call.images
    /\ \E outcome \in PAGE_OUTCOMES :
        call' = [call EXCEPT
                    !.pages[call.i].outcome = outcome,
                    !.all_text = ocr_page(@, call.pages[call.i].text, outcome),
                    !.i = @ + 1]
    /\ UNCHANGED <<fs, settings, store, reconciliation, ing, rec, lastRun, thisRun,
                   lastDoc, collided, synced>>

\* pdf_processor.py 302-306: the loop is over and all_text is returned
PdfOcrReturn ==
    /\ PdfOcr /\ call.pc = "pages" /\ call.i > call.images
    /\ call' = [call EXCEPT !.pc = "returned"]
    /\ UNCHANGED <<fs, settings, store, reconciliation, ing, rec, lastRun, thisRun,
                   lastDoc, collided, synced>>

NextPdfOcr ==
    \/ PdfOcrCall
    \/ PdfConvert
    \/ PdfOcrPage
    \/ PdfOcrReturn

SpecPdfOcr == InitStore /\ [][NextPdfOcr]_vars

\* the page survives: its OCR came back within the deadlines, without error
Survives(page) == page.outcome = "recognised"

RECURSIVE SurvivingText(_, _)
\* the texts of the surviving pages among pages[1..k], in page order
SurvivingText(pages, k) ==
    IF k = 0 THEN <<>>
    ELSE LET before == SurvivingText(pages, k - 1)
         IN  IF Survives(pages[k]) /\ pages[k].text # BlankPage
             THEN Append(before, pages[k].text)
             ELSE before

\* C32: once the pages are converted the function never fails: after every
\* page, whatever its OCR came to, the loop goes on to the next page, and the
\* text returned is the text, in page order, of the surviving pages among
\* the first three, empty when none survives
C32_SurvivingPagesInOrder ==
    /\ [](PdfOcr /\ call.pc \in {"pages", "returned"} =>
            /\ call.images <= 3
            /\ call.all_text = SurvivingText(call.pages, call.i - 1)
            /\ call.pc = "returned" => call.i = call.images + 1)
    /\ [][PdfOcr /\ call.pc = "pages" =>
            \/ call'.pc = "pages" /\ call'.i = call.i + 1
            \/ call'.pc = "returned" /\ call'.all_text = call.all_text]_vars

\* C32 at work: a PDF of four pages; the deadline of the first page expired,
\* the second raised, the third was recognised: its text alone is returned
C32_Witness ==
    /\ PdfOcr /\ call.pc = "returned"
    /\ Len(call.pages) = 4
    /\ call.pages[1].outcome = "deadline of page OCR"
    /\ call.pages[2].outcome = "error"
    /\ call.pages[3].outcome = "recognised"
    /\ call.all_text = <<3>>

\* C32, no page survives: the function returns the empty text
C32_WitnessEmpty ==
    /\ PdfOcr /\ call.pc = "returned"
    /\ Len(call.pages) = 3
    /\ \A k \in 1..3 : call.pages[k].text # BlankPage /\ ~Survives(call.pages[k])
    /\ call.all_text = <<>>

-----------------------------------------------------------------------------
(* The pipeline over a folder with a PDF                                   *)

PdfPaths == {"a.txt", "d.PNG", "f.pdf"}

InitPdf ==
    /\ \E S \in SUBSET PdfPaths :
        fs \in {f \in [S -> TextContents \cup {ScanInvoice} \cup PdfContents] :
                   \A p \in S : f[p] \in ContentsFor(p)}
    /\ OCR_AVAILABLE \in BOOLEAN
    /\ USE_OPENAI = FALSE
    /\ progress_callback = "None"
    /\ EmptyStore

SpecPdf == InitPdf /\ [][Next]_vars

\* the Document was stored by the run under way or just over, so that
\* thisRun tells how its text was obtained
StoredNow(d) == thisRun[d.path].res = "ingested" /\ thisRun[d.path].hash = d.hash

\* OCR took part in obtaining the text of the Document
OcrInvolved(d) ==
    \/ d.file_type \in IMAGE_TYPES
    \/ thisRun[d.path].why \in {"OCR of the pages", "no page survived the OCR"}

\* the text of the Document is the embedded text of a PDF
PurelyEmbedded(d) ==
    d.file_type = ".pdf" /\ thisRun[d.path].why = "embedded text"

\* C33: the confidence stored on a Document is 100 for a text file, 95 for a
\* PDF whose text is its embedded text, 75 when OCR took part, 90 otherwise,
\* with and without the OCR capability
C33_ConfidenceByExtraction ==
    \A d \in documents :
        StoredNow(d) =>
            d.ocr_confidence =
                IF d.file_type = ".txt" THEN 100
                ELSE IF PurelyEmbedded(d) THEN 95
                ELSE IF OcrInvolved(d) THEN 75
                ELSE 90

\* the same, for every Document but that of a PDF read from its embedded text
\* in a process that has the OCR capability
C33_ConfidenceElsewhere ==
    \A d \in documents :
        StoredNow(d) /\ ~(PurelyEmbedded(d) /\ OCR_AVAILABLE) =>
            d.ocr_confidence =
                IF d.file_type = ".txt" THEN 100
                ELSE IF PurelyEmbedded(d) THEN 95
                ELSE IF OcrInvolved(d) THEN 75
                ELSE 90

\* a PDF read from its embedded text, with the OCR capability, stored with 75
C33_EmbeddedPdfAt75 ==
    \E d \in documents :
        /\ StoredNow(d) /\ PurelyEmbedded(d) /\ OCR_AVAILABLE
        /\ d.processing_method = "pdf_with_ocr_fallback"
        /\ d.ocr_confidence = 75

-----------------------------------------------------------------------------
(* Properties of the progress notifications                                *)

NonDecreasing(counts) ==
    \A k \in 1..(Len(counts) - 1) : counts[k] <= counts[k + 1]

LastCount(counts) == counts[Len(counts)]

\* C34: with a callback, the counts a run of ingest_folder or of reconcile
\* hands over never decrease and never exceed the total; after each file the
\* last count handed over is the number of files handled so far; whatever
\* reconcile does after an invoice starts with a notification that carries the
\* number of invoices handled so far; and a run that completes has handed
\* over the total last
C34_ProgressCounts ==
    /\ [](progress_callback # "None" =>
            /\ NonDecreasing(ing.notified)
            /\ \A k \in 1..Len(ing.notified) : ing.notified[k] <= Len(ing.all_files)
            /\ NonDecreasing(rec.notified)
            /\ \A k \in 1..Len(rec.notified) : rec.notified[k] <= Len(rec.invoices)
            /\ ing.pc = "running" => LastCount(ing.notified) = ing.idx - 1
            /\ ing.pc = "done" => LastCount(ing.notified) = Len(ing.all_files)
            /\ rec.pc = "done" => LastCount(rec.notified) = Len(rec.invoices))
    /\ [][progress_callback # "None" /\ rec.pc = "running" /\ rec' # rec =>
            /\ Len(rec'.notified) > Len(rec.notified)
            /\ rec'.notified[Len(rec.notified) + 1] = rec.idx - 1]_vars

\* C34 at work: a run over two files, an invoice and a file that is skipped,
\* then a run of reconcile over the invoice, both complete
C34_Witness ==
    /\ ing.pc = "done" /\ Len(ing.all_files) = 2 /\ ing.skipped = 1
    /\ ing.notified = <<0, 0, 1, 1, 2, 2>>
    /\ rec.pc = "done" /\ rec.notified = <<0, 0, 1>>

-----------------------------------------------------------------------------
(* Properties of the files no marker of the classifier matches             *)

\* the tables of the typed rows of one kind, before and after a step
TablesOf(kind) ==
    CASE kind = "PO" -> <<purchase_orders, po_lines>>
      [] kind = "INVOICE" -> <<invoices, invoice_lines>>
      [] kind = "GRN" -> <<grns, grn_lines>>

TablesOfNext(kind) ==
    CASE kind = "PO" -> <<purchase_orders', po_lines'>>
      [] kind = "INVOICE" -> <<invoices', invoice_lines'>>
      [] kind = "GRN" -> <<grns', grn_lines'>>

\* the step reads the supported file p, which no stored Document matches, and
\* the text it extracts from it is classified as kind
ExtractsAs(p, kind) ==
    /\ Handles(p) /\ is_supported_file_type(p)
    /\ ~is_duplicate(documents, p, file_hash(fs[p]))
    /\ \E r \in read_document_content(p, fs[p], OCR_AVAILABLE) :
          r.ok /\ r.why = thisRun'[p].why /\ classify(r.text) = kind

-----------------------------------------------------------------------------
(* Properties of the counters of ingest_folder                             *)

\* C36: in a run that goes on or returns, every file handled so far is counted
\* in exactly one of ingested, skipped and errors, so that their sum is the
\* number of files when the run returns, and every turn of the loop adds as
\* many Document rows as it adds to ingested
C36_CountersPartitionFiles ==
    [][ing.pc = "running" /\ ing'.pc \in {"running", "done"} =>
          /\ ing'.ingested + ing'.skipped + ing'.errors = ing'.idx - 1
          /\ ing'.pc = "done" =>
                ing'.ingested + ing'.skipped + ing'.errors = Len(ing'.all_files)
          /\ Cardinality(documents') - Cardinality(documents)
                = ing'.ingested - ing.ingested]_vars

\* a run that returned with every file counted as ingested, skipped or error
C36_RunReturned ==
    /\ ing.pc = "done" /\ Len(ing.all_files) = 2
    /\ ing.ingested = 1 /\ ing.errors = 1
    /\ Cardinality(documents) = 1

-----------------------------------------------------------------------------
(* Properties of the variances against the status                          *)

\* C37: in every record of the table qty_var is other than 0 only under the
\* status QTY_VAR and price_var_pct only under PRICE_VAR or QTY_VAR, so that
\* the records of every other status hold 0 and 0; and the qty_var of a
\* QTY_VAR record is beyond the quantity tolerance of the run
C37_VariancesOnlyUnderTheirStatus ==
    \A i \in 1..Len(reconciliation) :
        LET r == reconciliation[i]
        IN  /\ r.qty_var # 0 => r.status = "QTY_VAR"
            /\ r.price_var_pct # FracZero => r.status \in {"PRICE_VAR", "QTY_VAR"}
            /\ r.status \in {"MATCH", "DUP_INVOICE", "MISSING_GRN", "OVERBILL",
                             "NO_PO", "MISSING_INVOICE_DATA"}
                  => r.qty_var = 0 /\ r.price_var_pct = FracZero
            /\ r.status = "QTY_VAR" => Abs(r.qty_var) > rec.qty_tol

\* C37 at work: the record of a run holds QTY_VAR with a price_var_pct other
\* than 0, left by a line evaluated before the one that set the status, and a
\* qty_var beyond the tolerance
C37_Witness ==
    /\ Reconciled
    /\ \E i \in 1..Len(reconciliation) :
        /\ reconciliation[i].status = "QTY_VAR"
        /\ reconciliation[i].price_var_pct # FracZero
        /\ Abs(reconciliation[i].qty_var) > rec.qty_tol
        /\ rec.qty_tol > 0

-----------------------------------------------------------------------------
(* reconcile run again over the same tables                                *)

\* the documents of a folder: those of the two vendors under PO P1, and an
\* invoice of vendor V1 without a number
TwiceTexts ==
    VendorTexts \cup
    {InvoiceText(NULL, "V1", "2025-07-03", "102.01", <<Line("X", "12", "5.00")>>)}

\* ingest.py 62-63: what classify and extract make of them
TwiceDocs == {regex_extract(t, classify(t)).doc : t \in TwiceTexts}

\* ingest.py 96: the dict of one of these files is fanned out into the tables;
\* the folder holds one file for each of the documents, and a file is
\* ingested once, so there are never more header rows than documents
PersistTwiceDoc ==
    /\ ing.pc # "running" /\ rec.pc # "running"
    /\ \E doc \in TwiceDocs :
        /\ persist_structured(doc)
        /\ lastDoc' = doc
        /\ collided' = key_collides(doc)
    /\ HeaderRows(purchase_orders', invoices', grns') <= Cardinality(TwiceDocs)
    /\ synced' = FALSE
    /\ UNCHANGED <<fs, settings, call, documents, reconciliation, ing, rec, lastRun, thisRun>>

\* faulty variant: the records of the run before are left in the table
delete_from_reconciliation_nothing(table) == table

\* reconcile.py 18-19: DELETE FROM reconciliation, committed
delete_from_reconciliation(table) == <<>>

\* reconcile.py 16-37, as ReconcileStart.  History only: call keeps the table
\* and the tolerances the run found, and whether the table was that of a
\* completed run with no ingestion since (again)
ReconcileStartAgain ==
    /\ ing.pc # "running" /\ rec.pc # "running"
    /\ \E qt \in QTY_TOLS, pt \in PRICE_TOLS :
        /\ rec' = [pc |-> "running", invoices |-> invoice_list(invoices), idx |-> 1,
                   dups |-> duplicate_invoices(invoices),
                   qty_tol |-> qt, price_tol |-> pt, notified |-> <<>>]
        /\ call' = [fn |-> "reconcile", before |-> reconciliation,
                    again |-> /\ rec.pc = "done" /\ synced
                              /\ rec.qty_tol = qt /\ rec.price_tol = pt]
    /\ reconciliation' = delete_from_reconciliation(reconciliation)
    /\ synced' = FALSE
    /\ UNCHANGED <<fs, settings, store, ing, lastRun, thisRun, lastDoc, collided>>

NextTwice ==
    \/ PersistTwiceDoc
    \/ ReconcileStartAgain
    \/ ReconcileInvoice
    \/ ReconcileFinish

SpecTwice == InitStore /\ [][NextTwice]_vars

\* the run that is over was the second of two in succession, with the same
\* tolerances and no ingestion in between
SecondRunOver == call.fn = "reconcile" /\ call.again /\ rec.pc = "done"

\* C38: after the second of two runs in succession the table is the table the
\* first run left, record for record and in the same order, and no step of a
\* run changes a row of documents, purchase_orders, po_lines, invoices,
\* invoice_lines, grns or grn_lines
C38_IdempotentAndReadOnly ==
    /\ [](SecondRunOver => reconciliation = call.before)
    /\ [][rec' # rec =>
            UNCHANGED <<documents, purchase_orders, po_lines, invoices,
                        invoice_lines, grns, grn_lines>>]_vars

\* C38 at work: two runs in succession over the six documents: the three
\* records of the first run are there again after the second
C38_Witness ==
    /\ SecondRunOver
    /\ Len(reconciliation) = 3
    /\ \E i, j \in 1..3 : /\ reconciliation[i].status = "QTY_VAR"
                          /\ reconciliation[j].status # "QTY_VAR"
                          /\ reconciliation[j].invoice_number = NULL

-----------------------------------------------------------------------------
(* ResetManager: backups and the full reset                                *)

\* a directory: whether it exists, and the names of the files in it; a file
\* of the data lake is a generated sample or a file somebody put there, and
\* its name tells which (generate is seeded: the samples are always the same)
NoDir == [exists |-> FALSE, files |-> {}]
DIRS == {NoDir} \cup {[exists |-> TRUE, files |-> F] : F \in SUBSET {"sample.txt", "upload.txt"}}

\* what the manager works on: the database file (absent, with empty tables,
\* with rows), the config file (absent, the defaults, other values) and the
\* data lake
SYSTEMS == [db : {"absent", "empty", "rows"},
            config : {"absent", "default", "custom"},
            data_raw : DIRS]

\* backups/<name>: the directory of a backup and what it holds
NoBackup == [exists |-> FALSE, db |-> "absent", config |-> "absent",
             data_lake |-> NoDir, metadata |-> FALSE]

\* create_backup(None) names the backup after the time of day
BACKUP_NAMES == {"pre_reset_backup", "backup_<timestamp>"}

\* reset_manager.py 46-52: if src.exists(): shutil.copy2(src, dst)
copy2(src, dst) == IF src # "absent" THEN src ELSE dst

\* reset_manager.py 54-56: if src.exists(): shutil.copytree(src, dst,
\* dirs_exist_ok=True): the files of src are written into dst, over those of
\* the same name; the other files of dst stay
copytree(src, dst) ==
    IF src.exists THEN [exists |-> TRUE, files |-> dst.files \cup src.files]
    ELSE dst

\* where create_backup can raise: nowhere, or at one of its four writes
BACKUP_FAILS == {"none", "db", "config", "data", "metadata"}

\* create_backup (reset_manager.py 27-74) into the directory old: whether it
\* returns, and what the directory holds afterwards
create_backup(sys, old, fail) ==
    LET b0 == [old EXCEPT !.exists = TRUE]
        b1 == [b0 EXCEPT !.db = copy2(sys.db, @)]
        b2 == [b1 EXCEPT !.config = copy2(sys.config, @)]
        b3 == [b2 EXCEPT !.data_lake = copytree(sys.data_raw, @)]
        b4 == [b3 EXCEPT !.metadata = TRUE]
    IN  CASE fail = "none" -> [ok |-> TRUE, backup |-> b4]
          [] fail = "db" -> [ok |-> FALSE, backup |-> b0]
          [] fail = "config" -> [ok |-> FALSE, backup |-> b1]
          [] fail = "data" -> [ok |-> FALSE, backup |-> b2]
          [] fail = "metadata" -> [ok |-> FALSE, backup |-> b3]

\* reset_database (149-180): every table of an existing database is emptied
reset_database(db) == IF db = "absent" THEN "absent" ELSE "empty"

\* reset_sample_data (182-213): the files are removed, the samples generated
reset_sample_data(dir, regenerate) ==
    LET cleared == IF dir.exists THEN [dir EXCEPT !.files = {}] ELSE dir
    IN  IF regenerate THEN [exists |-> TRUE, files |-> {"sample.txt"}] ELSE cleared

NoResults == [backup_created |-> "None", database_reset |-> FALSE,
              sample_data_reset |-> FALSE, config_reset |-> FALSE, errors |-> FALSE]

Manager == call.fn = "ResetManager"

\* no system: no database, no config, no data lake
NoSystem == [db |-> "absent", config |-> "absent", data_raw |-> NoDir]

\* ResetManager(db_path, data_raw_path, config_path) (20-25) on some system.
\* History only: op is the last operation, streak the number (up to 2) of
\* full resets with backup that completed in a row, before the system the
\* second of them found, which is the system the first of them left.
ManagerCreated ==
    /\ call.fn = "none"
    /\ \E s \in SYSTEMS :
        call' = [fn |-> "ResetManager", sys |-> s,
                 backups |-> [n \in BACKUP_NAMES |-> NoBackup],
                 results |-> NoResults, op |-> "__init__", before |-> NoSystem,
                 streak |-> 0]
    /\ UNCHANGED <<fs, settings, store, reconciliation, ing, rec, lastRun, thisRun,
                   lastDoc, collided, synced>>

\* the pipeline is used: a file is put into the data lake and ingested, or
\* the tolerances of the config are changed
UseSystem ==
    /\ Manager
    /\ \E s \in {[call.sys EXCEPT !.db = "rows",
                                   !.data_raw = [exists |-> TRUE,
                                                 files |-> @.files \cup {"upload.txt"}]],
                  [call.sys EXCEPT !.config = "custom"]} :
        /\ s # call.sys
        /\ call' = [call EXCEPT !.sys = s, !.op = "use", !.streak = 0,
                                !.before = NoSystem]
    /\ UNCHANGED <<fs, settings, store, reconciliation, ing, rec, lastRun, thisRun,
                   lastDoc, collided, synced>>

\* create_backup() called by the user, once: a new directory named after the
\* time
UserBackup ==
    /\ Manager /\ ~call.backups["backup_<timestamp>"].exists
    /\ \E fail \in BACKUP_FAILS :
        call' = [call EXCEPT
                    !.backups["backup_<timestamp>"] =
                        create_backup(call.sys, NoBackup, fail).backup,
                    !.op = "create_backup", !.streak = 0, !.before = NoSystem]
    /\ UNCHANGED <<fs, settings, store, reconciliation, ing, rec, lastRun, thisRun,
                   lastDoc, collided, synced>>

\* full_reset(create_backup, regenerate_data) (238-284): the backup, then the
\* three resets; an exception of create_backup or of reset_database ends the
\* call with the error recorded
FullReset ==
    /\ Manager
    /\ \E backup \in BOOLEAN, regenerate_data \in BOOLEAN,
          fail \in BACKUP_FAILS, db_fails \in BOOLEAN :
        LET sys == call.sys
            made == create_backup(sys, call.backups["pre_reset_backup"], fail)
            backups == IF backup
                       THEN [call.backups EXCEPT !["pre_reset_backup"] = made.backup]
                       ELSE call.backups
            created == IF backup /\ made.ok THEN "pre_reset_backup" ELSE "None"
        IN  /\ ~backup => fail = "none"
            /\ IF backup /\ ~made.ok
               THEN call' = [call EXCEPT
                                !.backups = backups,
                                !.results = [NoResults EXCEPT !.errors = TRUE],
                                !.op = "full_reset", !.before = NoSystem,
                                !.streak = 0]
               ELSE IF db_fails
               THEN call' = [call EXCEPT
                                !.backups = backups,
                                !.results = [NoResults EXCEPT !.backup_created = created,
                                                              !.errors = TRUE],
                                !.op = "full_reset", !.before = NoSystem,
                                !.streak = 0]
               ELSE call' = [call EXCEPT
                                !.sys = [db |-> reset_database(sys.db),
                                         config |-> "default",
                                         data_raw |-> reset_sample_data(sys.data_raw,
                                                                        regenerate_data)],
                                !.backups = backups,
                                !.results = [backup_created |-> created,
                                             database_reset |-> TRUE,
                                             sample_data_reset |-> TRUE,
                                             config_reset |-> TRUE, errors |-> FALSE],
                                !.op = "full_reset",
                                !.before = IF backup /\ call.streak > 0
                                           THEN sys ELSE NoSystem,
                                !.streak = IF ~backup THEN 0
                                           ELSE IF @ = 0 THEN 1 ELSE 2]
    /\ UNCHANGED <<fs, settings, store, reconciliation, ing, rec, lastRun, thisRun,
                   lastDoc, collided, synced>>

NextReset ==
    \/ ManagerCreated
    \/ UseSystem
    \/ UserBackup
    \/ FullReset

SpecReset == InitStore /\ [][NextReset]_vars

\* the backup holds the system s, and nothing else
HoldsExactly(b, s) ==
    /\ b.db = s.db /\ b.config = s.config
    /\ b.data_lake = s.data_raw

\* C39 as stated: after two full resets with backup in a row, pre_reset_backup
\* holds the state the first one left, which is the state the second one
\* found, and nothing of what was there before the first
C39_SecondBackupHoldsStateLeftByFirst ==
    Manager /\ call.streak = 2
        => HoldsExactly(call.backups["pre_reset_backup"], call.before)

\* the rest of C39: a full reset with backup writes pre_reset_backup and no
\* other backup, from the system as it finds it: the database and the config
\* it finds replace those of the backup, every file it finds is in the
\* backup; and when create_backup fails nothing is reset
C39_BackupFirstUnderOneName ==
    [][Manager /\ call'.op = "full_reset" /\ call' # call =>
          LET b == call'.backups["pre_reset_backup"]
          IN  /\ call'.backups["backup_<timestamp>"] = call.backups["backup_<timestamp>"]
              /\ call'.results.backup_created \in {"None", "pre_reset_backup"}
              /\ call'.results.backup_created = "pre_reset_backup" =>
                    /\ call.sys.db # "absent" => b.db = call.sys.db
                    /\ call.sys.config # "absent" => b.config = call.sys.config
                    /\ call.sys.data_raw.files \subseteq b.data_lake.files
              /\ call'.sys # call.sys => call'.results.database_reset
              /\ call'.results.errors /\ call'.results.backup_created = "None"
                    => call'.sys = call.sys /\ ~call'.results.database_reset
                         /\ ~call'.results.sample_data_reset
                         /\ ~call'.results.config_reset]_vars

\* two full resets in a row after which the backup holds the database and the
\* config the first one left
C39_DatabaseOfFirstResetLost ==
    /\ Manager /\ call.streak = 2
    /\ call.backups["pre_reset_backup"].db = "empty"
    /\ call.backups["pre_reset_backup"].config = "default"
    /\ "upload.txt" \in call.backups["pre_reset_backup"].data_lake.files
    /\ "upload.txt" \notin call.before.data_raw.files

====
